---- MODULE Spec2Model ----
(***************************************************************************)
(* Model of the gonano wallet engine: the proof-of-work generator (package *)
(* pow), the wallet's account registry and gap scan (package wallet), and  *)
(* an account's block construction against a ledger node.                  *)
(*                                                                         *)
(* The module holds several specifications over disjoint groups of         *)
(* variables:                                                              *)
(*   SpecPow     pow.Generate / pow.GenerateCPU with its racing workers    *)
(*   SpecNonce   the nonces GenerateCPU's workers hash, for any CPU count  *)
(*   SpecWallet  Wallet.NewAccount / Wallet.ScanForAccounts, sequential    *)
(*   SpecWalletFair  the same, a running ScanForAccounts making progress   *)
(*   SpecConc    Wallet.NewAccount(nil) called by several goroutines       *)
(*   SpecDrain   Wallet.ReceivePendings over the accounts of a wallet      *)
(*   SpecMulti   Account.SendMultiple: its producer goroutine and loop     *)
(*   SpecAcct    Account.SendBlock, SendBlocks, ReceivePendings, ...       *)
(***************************************************************************)
EXTENDS Integers, Sequences, FiniteSets, TLC

VARIABLES
    \* ---- pow.GenerateCPU ----
    data,        \* the linkage bytes handed to Generate
    difficulty,  \* the difficulty bytes handed to Generate
    x0,          \* x := rand.Uint64()
    done,        \* the shared flag of GenerateCPU
    ch,          \* the result channel: references to workers' work buffers
    work,        \* work[i]: the 8-byte buffer of worker i
    wx,          \* wx[i]: the loop variable x of worker i
    wpc,         \* wpc[i]: where worker i is
    iters,       \* iters[i]: loop iterations worker i has started
    mpc,         \* where the caller of Generate is
    got,         \* the buffer reference received from ch
    result,      \* what Generate returned
    firstSet     \* the first done = true: who executed it, hashes finished by then

VARIABLES
    \* ---- Wallet (registry and gap scan) ----
    impl,        \* w.impl: "seed" (seedImpl) or "ledger" (ledgerImpl)
    seed,        \* w.seed
    isBip39,     \* w.isBip39
    isBanano,    \* w.isBanano
    nextIndex,   \* w.nextIndex
    accounts,    \* w.accounts: address -> *Account
    lgPending,   \* ledger node: the addresses with a pending balance > 0
    lgFrontier,  \* ledger node: the addresses that have a frontier
    scanPc,      \* "idle", or "recurse": ScanForAccounts is about to call itself
    lastNew,     \* what the last NewAccount call was given and returned, and
                 \* whether any call so far was given an index
    lastScan,    \* what the last probe batch of ScanForAccounts did
    calls        \* NewAccount calls made by the wallet's user

walletVars == <<impl, seed, isBip39, isBanano, nextIndex, accounts,
                lgPending, lgFrontier, scanPc, lastNew, lastScan, calls>>

VARIABLES
    \* ---- Accounts and the ledger node they talk to ----
    accts,       \* the derivation indices of the wallet's accounts
    rep,         \* rep[a]: a.representative, the cached representative
    lg,          \* ledger node: lg[a] is the chain tip of account a
    pend,        \* ledger node: pend[a] maps the pending source ids to amounts
    seen,        \* ledger node: seen[a], the source ids ever sent to account a
    clean,       \* clean[a]: thresholds drained with nothing new pending since
    ret          \* what the last operation was given, did and returned

acctVars == <<accts, rep, lg, pend, seen, clean, ret>>

VARIABLES
    \* ---- Concurrent callers of NewAccount(nil) ----
    pc,            \* pc[p]: where caller p is in NewAccount
    callerIndex2,  \* callerIndex2[p]: the local index2 of caller p
    acct,          \* acct[p]: the account a caller p has built
    tmp,           \* tmp[p]: the value caller p loaded for w.nextIndex++
    inserted,      \* inserted[p]: the local done of caller p
    accountsMutex  \* w.accountsMutex: the caller holding it, or NoCaller

concVars == <<pc, callerIndex2, acct, tmp, inserted, accountsMutex>>

VARIABLES
    \* ---- Account.SendMultiple: the caller and its work producer ----
    smBlocks,            \* blocks: what SendBlocks returned, work filled in
    blocksWithWorkChan,  \* the buffered channel: indices into blocks
    chanClosed,          \* close(blocksWithWorkChan) has run
    ppc,                 \* where the producer goroutine is
    pi,                  \* the producer's loop index i (from 1)
    cpc,                 \* where SendMultiple itself (the consumer) is
    cBlock,              \* the index of the block received from the channel
    hashes,              \* the result parameter hashes
    smErr,               \* the result parameter err, shared with the producer
    pErr,                \* the error the producer is sending on errChan
    smLog,               \* the ledger calls SendMultiple made, in order
    smRet                \* what SendMultiple returned to its caller

multiVars == <<smBlocks, blocksWithWorkChan, chanClosed, ppc, pi, cpc, cBlock,
               hashes, smErr, pErr, smLog, smRet>>

VARIABLES
    \* ---- the nonces of GenerateCPU's workers ----
    ncpu,        \* n := runtime.NumCPU()
    seedX,       \* x := rand.Uint64()
    loopX,       \* loopX[i]: the loop variable x of worker i
    tried        \* tried[i]: the nonces worker i has hashed, in order

nonceVars == <<ncpu, seedX, loopX, tried>>

powVars == <<data, difficulty, x0, done, ch, work, wx, wpc, iters, mpc, got, result,
            firstSet>>

vars == <<powVars, walletVars, acctVars, concVars, multiVars, nonceVars>>

\* what the actions of one component leave alone
notPow == <<walletVars, acctVars, concVars, multiVars, nonceVars>>
notWallet == <<powVars, acctVars, concVars, multiVars, nonceVars>>
notAcct == <<powVars, walletVars, concVars, multiVars, nonceVars>>
notConc == <<powVars, acctVars, multiVars, nonceVars>>
notMulti == <<powVars, walletVars, concVars, nonceVars>>
notNonce == <<powVars, walletVars, acctVars, concVars, multiVars>>

-----------------------------------------------------------------------------
(* Bounds of the model *)

\* runtime.NumCPU() of the machine
NumWorkers == 2
\* goroutines calling NewAccount(nil) on one wallet
NumCallers == 2
\* values one byte can take (a byte is 0 .. ByteMod-1)
ByteMod == 2
\* loop iterations one worker may start
MaxIters == 3
\* nonces one worker hashes when the workers' nonce sequences are followed
MaxTries == 130
\* the highest derivation index the ledger knows as used
MaxUsedIndex == 7
\* how many of the wallet's accounts the ledger knows as used
MaxUsed == 1
\* the highest index a caller passes to NewAccount explicitly
MaxExplicit == 1
\* NewAccount calls the wallet's user makes
MaxCalls == 2
\* the source blocks that may be sent to one account (source s carries amount s)
MaxPending == 2
\* blocks the ledger accepts on one account's chain before callers stop
MaxHeight == 2
\* the number of destinations of one SendBlocks call
MaxDests == 2

(* Program constants *)

\* make([]byte, 8): the length of a work value and of a hash sum
WorkLen == 8
\* accounts := make([]string, 10): the probe batch of ScanForAccounts
BatchSize == 10
\* if i < 5: the scan returns when it stopped below this slot
GapLimit == 5
\* index == nil: NewAccount is to take the wallet's next index
NoIndex == -1

-----------------------------------------------------------------------------
(* Bytes and integers *)

RECURSIVE Pow(_, _)
Pow(b, e) == IF e = 0 THEN 1 ELSE b * Pow(b, e - 1)

\* the number of values WorkLen bytes hold: 2^64 in the program
WordMod == Pow(ByteMod, WorkLen)

Reverse(s) == [i \in 1..Len(s) |-> s[Len(s) + 1 - i]]

RECURSIVE BigEndianUint(_)
BigEndianUint(b) ==
    IF Len(b) = 0 THEN 0
    ELSE BigEndianUint(SubSeq(b, 1, Len(b) - 1)) * ByteMod + b[Len(b)]

RECURSIVE LittleEndianUint(_)
LittleEndianUint(b) ==
    IF Len(b) = 0 THEN 0
    ELSE b[1] + ByteMod * LittleEndianUint(Tail(b))

BigEndianPutUint(v) ==
    [i \in 1..WorkLen |-> (v \div Pow(ByteMod, WorkLen - i)) % ByteMod]

\* blake2b with an 8-byte digest over the bytes written: a fixed mixing function
RECURSIVE Mix(_, _)
Mix(h, b) ==
    IF Len(b) = 0 THEN h
    ELSE Mix((h * 7 + 3 * Head(b) + Len(b) + 1) % WordMod, Tail(b))

Blake2bSum(written) == BigEndianPutUint(Mix(5 % WordMod, written))

-----------------------------------------------------------------------------
(* pow.Generate and pow.GenerateCPU *)

Workers == 0..(NumWorkers - 1)

\* the inputs Generate is called with, and the values rand.Uint64() gives
PowData == {<<0>>, <<1, 0>>}
PowDifficulties ==
    {BigEndianPutUint(0), BigEndianPutUint(WordMod \div 2),
     BigEndianPutUint(WordMod - (WordMod \div 4))}
PowSeeds == {0, 1, WordMod - 1}

\* target := binary.BigEndian.Uint64(difficulty)
Target == BigEndianUint(difficulty)

\* if binary.LittleEndian.Uint64(hash[i].Sum(nil)) >= target
AcceptsBigEndian(sum, target) == BigEndianUint(sum) >= target
Accepts(sum, target) == LittleEndianUint(sum) >= target

\* worker i has executed done = true (it sends right after)
HasSet(i) == got = i \/ \E k \in 1..Len(ch) : ch[k] = i

\* the values a read of the unsynchronised flag may give worker i: the flag is
\* written without synchronisation, so a worker may still observe the initial
\* false after another worker's write, but never after its own
ReadDone(i) == IF done /\ ~HasSet(i) THEN {TRUE, FALSE} ELSE {done}

\* the hashes worker i has finished
Hashed(i) == IF wpc[i] = "hash" THEN iters[i] - 1 ELSE iters[i]

\* done = true has not been executed
NoSet == [by |-> -1, hashed |-> <<>>]

\* for x := x + uint64(i); ...; x += uint64(n): worker i's first nonce and
\* the nonce after v, in the unsigned arithmetic of the word
FirstNonce(x, i) == (x + i) % WordMod
NextNonceByOne(v, n) == (v + 1) % WordMod
NextNonce(v, n) == (v + n) % WordMod

PowInit ==
    /\ data \in PowData
    /\ difficulty \in PowDifficulties
    /\ x0 \in PowSeeds
    /\ done = FALSE
    /\ ch = <<>>
    /\ work = [i \in Workers |-> [k \in 1..WorkLen |-> 0]]
    /\ wx = [i \in Workers |-> FirstNonce(x0, i)]
    /\ wpc = [i \in Workers |-> "check"]
    /\ iters = [i \in Workers |-> 0]
    /\ mpc = "recv"
    /\ got = -1
    /\ result = <<>>
    /\ firstSet = NoSet

\* the loop condition !done of worker i
WorkerCheck(i) ==
    /\ wpc[i] = "check"
    /\ \E d \in ReadDone(i) :
         IF d
         THEN /\ wpc' = [wpc EXCEPT ![i] = "exit"]
              /\ iters' = iters
         ELSE /\ iters[i] < MaxIters
              /\ wpc' = [wpc EXCEPT ![i] = "hash"]
              /\ iters' = [iters EXCEPT ![i] = @ + 1]
    /\ UNCHANGED <<data, difficulty, x0, done, ch, work, wx, mpc, got, result, firstSet>>
    /\ UNCHANGED notPow

\* PutUint64, Reset, Write(work), Write(data), Sum and the comparison
WorkerHash(i) ==
    /\ wpc[i] = "hash"
    /\ LET buf == BigEndianPutUint(wx[i])
           sum == Blake2bSum(buf \o data)
       IN  /\ work' = [work EXCEPT ![i] = buf]
           /\ IF Accepts(sum, Target)
              THEN /\ wpc' = [wpc EXCEPT ![i] = "set"]
                   /\ wx' = wx
              ELSE /\ wpc' = [wpc EXCEPT ![i] = "check"]
                   /\ wx' = [wx EXCEPT ![i] = NextNonce(@, NumWorkers)]
    /\ UNCHANGED <<data, difficulty, x0, done, ch, iters, mpc, got, result, firstSet>>
    /\ UNCHANGED notPow

\* done = true
WorkerSet(i) ==
    /\ wpc[i] = "set"
    /\ done' = TRUE
    /\ firstSet' = IF done THEN firstSet
                   ELSE [by |-> i, hashed |-> [j \in Workers |-> Hashed(j)]]
    /\ wpc' = [wpc EXCEPT ![i] = "send"]
    /\ UNCHANGED <<data, difficulty, x0, ch, work, wx, iters, mpc, got, result>>
    /\ UNCHANGED notPow

\* ch <- work, then the loop's x += uint64(n)
WorkerSend(i) ==
    /\ wpc[i] = "send"
    /\ Len(ch) < NumWorkers
    /\ ch' = Append(ch, i)
    /\ wx' = [wx EXCEPT ![i] = NextNonce(@, NumWorkers)]
    /\ wpc' = [wpc EXCEPT ![i] = "check"]
    /\ UNCHANGED <<data, difficulty, x0, done, work, iters, mpc, got, result, firstSet>>
    /\ UNCHANGED notPow

\* return <-ch, nil
GenerateCPUReturn ==
    /\ mpc = "recv"
    /\ Len(ch) > 0
    /\ got' = Head(ch)
    /\ ch' = Tail(ch)
    /\ mpc' = "reverse"
    /\ UNCHANGED <<data, difficulty, x0, done, work, wx, wpc, iters, result, firstSet>>
    /\ UNCHANGED notPow

\* the byte swap loop of Generate, in place on the buffer received
GenerateReturn ==
    /\ mpc = "reverse"
    /\ work' = [work EXCEPT ![got] = Reverse(@)]
    /\ result' = Reverse(work[got])
    /\ mpc' = "returned"
    /\ UNCHANGED <<data, difficulty, x0, done, ch, wx, wpc, iters, got, firstSet>>
    /\ UNCHANGED notPow

PowNext ==
    \/ \E i \in Workers : WorkerCheck(i)
    \/ \E i \in Workers : WorkerHash(i)
    \/ \E i \in Workers : WorkerSet(i)
    \/ \E i \in Workers : WorkerSend(i)
    \/ GenerateCPUReturn
    \/ GenerateReturn

-----------------------------------------------------------------------------
(* The nonce sequences of GenerateCPU's workers, followed past the point
   where a worker is stopped, for any number of workers *)

\* the machines GenerateCPU may run on: runtime.NumCPU()
CpuCounts == 1..(NumWorkers + 1)

NonceInit ==
    /\ ncpu \in CpuCounts
    /\ seedX \in PowSeeds
    /\ loopX = [i \in 0..(ncpu - 1) |-> FirstNonce(seedX, i)]
    /\ tried = [i \in 0..(ncpu - 1) |-> <<>>]

\* every worker hashes the nonce in its loop variable and advances it
NonceRound ==
    /\ \A i \in 0..(ncpu - 1) : Len(tried[i]) < MaxTries
    /\ tried' = [i \in 0..(ncpu - 1) |-> Append(tried[i], loopX[i])]
    /\ loopX' = [i \in 0..(ncpu - 1) |-> NextNonce(loopX[i], ncpu)]
    /\ UNCHANGED <<ncpu, seedX>>
    /\ UNCHANGED notNonce

NonceNext == NonceRound

-----------------------------------------------------------------------------
(* Key derivation and addresses *)

\* deriveKey(seed, index): the legacy derivation, a hash of seed and index
deriveKey(sd, index) == <<"key", sd, index>>

\* deriveBip39Key(seed, index): the hardened derivation path
deriveBip39Key(sd, index) == <<"bip39key", sd, index>>

\* deriveKeypair(key): the public key that belongs to a private key
deriveKeypair(key) == [pubkey |-> <<"pub", key>>, key |-> key]

\* util.PubkeyToAddress / util.PubkeyToBananoAddress
PubkeyToAddress(pubkey) == <<"nano_", pubkey>>
PubkeyToBananoAddress(pubkey) == <<"ban_", pubkey>>

\* seedImpl.deriveAccount(a) and ledgerImpl.deriveAccount(a); a.w is the wallet
deriveAccountFromNextIndex(a) ==
    IF a.w.impl = "ledger"
    THEN [err |-> "ledger support not available", pubkey |-> <<>>, key |-> <<>>]
    ELSE LET key == IF a.w.isBip39 THEN deriveBip39Key(a.w.seed, a.w.nextIndex)
                    ELSE deriveKey(a.w.seed, a.w.nextIndex)
             kp == deriveKeypair(key)
         IN  [err |-> "", pubkey |-> kp.pubkey, key |-> kp.key]
deriveAccountSeedOnly(a) ==
    LET key == IF a.w.isBip39 THEN deriveBip39Key(a.w.seed, a.index)
               ELSE deriveKey(a.w.seed, a.index)
        kp == deriveKeypair(key)
    IN  [err |-> "", pubkey |-> kp.pubkey, key |-> kp.key]
deriveAccount(a) ==
    IF a.w.impl = "ledger"
    THEN [err |-> "ledger support not available", pubkey |-> <<>>, key |-> <<>>]
    ELSE LET key == IF a.w.isBip39 THEN deriveBip39Key(a.w.seed, a.index)
                    ELSE deriveKey(a.w.seed, a.index)
             kp == deriveKeypair(key)
         IN  [err |-> "", pubkey |-> kp.pubkey, key |-> kp.key]

-----------------------------------------------------------------------------
(* Wallet.NewAccount and Wallet.ScanForAccounts, one caller at a time *)

\* the wallet as the code of NewAccount sees it
Wallet(ni, accs) ==
    [impl |-> impl, seed |-> seed, isBip39 |-> isBip39, isBanano |-> isBanano,
     nextIndex |-> ni, accounts |-> accs]

NoAccount == [index |-> NoIndex, pubkey |-> <<>>, key |-> <<>>, address |-> <<>>]

\* the address the wallet gives derivation index i
AddressOf(i) ==
    LET d == deriveAccount([w |-> Wallet(0, <<>>), index |-> i])
    IN  IF isBanano THEN PubkeyToBananoAddress(d.pubkey) ELSE PubkeyToAddress(d.pubkey)

\* w.accounts[a.address] = a
RegistryPut(accs, a) ==
    [k \in (DOMAIN accs) \cup {a.address} |-> IF k = a.address THEN a ELSE accs[k]]

\* delete(w.accounts, address)
RegistryDelete(accs, address) ==
    [k \in (DOMAIN accs) \ {address} |-> accs[k]]

\* NewAccount(index) on wallet w: the wallet afterwards, the account returned,
\* the error, whether this call inserted the account, and the retries made
RECURSIVE NewAccount(_, _, _)
NewAccount(w, index, retries) ==
    LET index2 == IF index # NoIndex THEN index ELSE w.nextIndex
        d == deriveAccount([w |-> w, index |-> index2])
        address == IF w.isBanano THEN PubkeyToBananoAddress(d.pubkey)
                   ELSE PubkeyToAddress(d.pubkey)
        a == [index |-> index2, pubkey |-> d.pubkey, key |-> d.key, address |-> address]
        ni == IF index = NoIndex THEN w.nextIndex + 1 ELSE w.nextIndex
        isNew == address \notin DOMAIN w.accounts
        accs == IF isNew THEN RegistryPut(w.accounts, a) ELSE w.accounts
        w2 == [w EXCEPT !.nextIndex = ni, !.accounts = accs]
    IN  IF d.err # ""
        THEN [w |-> w, a |-> [NoAccount EXCEPT !.index = index2], err |-> d.err,
              inserted |-> FALSE, retries |-> retries]
        ELSE IF ~isNew /\ index = NoIndex
        THEN CHOOSE retried \in
                 {NewAccount(w3, NoIndex, retries + 1) : w3 \in {w2}} : TRUE
        ELSE [w |-> w2, a |-> a, err |-> "", inserted |-> isNew, retries |-> retries]

\* the first n NewAccount(nil) calls of a probe batch; stops at the first error
RECURSIVE ProbeBatch(_, _, _)
ProbeBatch(w, n, batch) ==
    IF n = 0 THEN [w |-> w, batch |-> batch, err |-> ""]
    ELSE CHOOSE probed \in
             {IF r.err # "" THEN [w |-> r.w, batch |-> batch, err |-> r.err]
              ELSE ProbeBatch(r.w, n - 1, Append(batch, r.a)) :
                 r \in {NewAccount(w, NoIndex, 0)}} : TRUE

\* balances[accounts[i]].Pending.Sign() > 0 || frontiers[accounts[i]] != nil
UsedPendingOnly(address) == address \in lgPending
Used(address) == address \in lgPending \/ address \in lgFrontier

\* the downward loop of ScanForAccounts from slot i (slots count from 0):
\* the slot it stops at (-1: it ran off the bottom), the wallet afterwards
RECURSIVE ScanDownToGap(_, _, _)
ScanDownToGap(w, batch, i) ==
    IF i < GapLimit THEN [w |-> w, i |-> i]
    ELSE IF Used(batch[i + 1].address) THEN [w |-> w, i |-> i]
    ELSE CHOOSE scanned \in
             {ScanDownToGap(w2, batch, i - 1) :
                 w2 \in {[w EXCEPT !.nextIndex = w.accounts[batch[i + 1].address].index,
                                   !.accounts = RegistryDelete(w.accounts,
                                                               batch[i + 1].address)]}} : TRUE
RECURSIVE ScanDownWithoutRewind(_, _, _)
ScanDownWithoutRewind(w, batch, i) ==
    IF i < 0 THEN [w |-> w, i |-> i]
    ELSE IF Used(batch[i + 1].address) THEN [w |-> w, i |-> i]
    ELSE CHOOSE scanned \in
             {ScanDownWithoutRewind(w2, batch, i - 1) :
                 w2 \in {[w EXCEPT !.accounts = RegistryDelete(w.accounts,
                                                               batch[i + 1].address)]}} : TRUE
RECURSIVE ScanDown(_, _, _)
ScanDown(w, batch, i) ==
    IF i < 0 THEN [w |-> w, i |-> i]
    ELSE IF Used(batch[i + 1].address) THEN [w |-> w, i |-> i]
    ELSE CHOOSE scanned \in
             {ScanDown(w2, batch, i - 1) :
                 w2 \in {[w EXCEPT !.nextIndex = w.accounts[batch[i + 1].address].index,
                                   !.accounts = RegistryDelete(w.accounts,
                                                               batch[i + 1].address)]}} : TRUE

\* NewWallet, NewBananoWallet, NewBip39Wallet, NewBip39BananoWallet, NewLedgerWallet
Constructors ==
    {[impl |-> "seed", seed |-> <<"S">>, isBip39 |-> FALSE, isBanano |-> FALSE],
     [impl |-> "seed", seed |-> <<"S">>, isBip39 |-> FALSE, isBanano |-> TRUE],
     [impl |-> "seed", seed |-> <<"M">>, isBip39 |-> TRUE, isBanano |-> FALSE],
     [impl |-> "seed", seed |-> <<"M">>, isBip39 |-> TRUE, isBanano |-> TRUE],
     [impl |-> "ledger", seed |-> <<>>, isBip39 |-> FALSE, isBanano |-> FALSE]}

NoScan ==
    [batch |-> <<>>, i |-> BatchSize, err |-> "none", before |-> <<>>, after |-> <<>>,
     nextIndex |-> 0, again |-> FALSE]

WalletInit ==
    /\ \E c \in Constructors :
         /\ impl = c.impl
         /\ seed = c.seed
         /\ isBip39 = c.isBip39
         /\ isBanano = c.isBanano
    /\ nextIndex = 0
    /\ accounts = <<>>
    /\ \E U \in SUBSET (0..MaxUsedIndex) :
         /\ Cardinality(U) <= MaxUsed
         /\ \E P \in SUBSET U :
              /\ lgPending = {AddressOf(i) : i \in P}
              /\ lgFrontier = {AddressOf(i) : i \in U \ P}
    /\ scanPc = "idle"
    /\ lastNew = [index |-> NoIndex, a |-> NoAccount, err |-> "", inserted |-> FALSE,
                  retries |-> 0, anyExplicit |-> FALSE]
    /\ lastScan = NoScan
    /\ calls = 0

\* a caller's w.NewAccount(index), index nil or explicit
CallNewAccount(index) ==
    /\ scanPc = "idle"
    /\ calls < MaxCalls
    /\ \E r \in {NewAccount(Wallet(nextIndex, accounts), index, 0)} :
           /\ nextIndex' = r.w.nextIndex
           /\ accounts' = r.w.accounts
           /\ lastNew' = [index |-> index, a |-> r.a, err |-> r.err,
                          inserted |-> r.inserted, retries |-> r.retries,
                          anyExplicit |-> lastNew.anyExplicit \/ index # NoIndex]
    /\ calls' = calls + 1
    /\ UNCHANGED <<impl, seed, isBip39, isBanano, lgPending, lgFrontier, scanPc, lastScan>>
    /\ UNCHANGED notWallet

\* if i < 5 { return }; return w.ScanForAccounts(): whether the activation
\* whose downward scan stopped at slot i calls ScanForAccounts again
ScanAgainWhileUsed(i) == i >= 0
ScanAgain(i) == ~(i < GapLimit)

\* one activation of ScanForAccounts: the caller's call, or the call it makes
\* to itself; rpcErr names the ledger query that fails, if one does
ScanForAccounts(rpcErr) ==
    /\ scanPc = "recurse" \/ calls < MaxCalls
    /\ calls' = IF scanPc = "idle" THEN calls + 1 ELSE calls
    /\ \E p \in {ProbeBatch(Wallet(nextIndex, accounts), BatchSize, <<>>)} :
         IF p.err # "" \/ rpcErr # "none"
         THEN /\ nextIndex' = p.w.nextIndex
              /\ accounts' = p.w.accounts
              /\ lastScan' = [batch |-> p.batch, i |-> BatchSize,
                              err |-> IF p.err # "" THEN p.err ELSE rpcErr,
                              before |-> p.w.accounts, after |-> p.w.accounts,
                              nextIndex |-> p.w.nextIndex, again |-> FALSE]
              /\ scanPc' = "idle"
         ELSE \E s \in {ScanDown(p.w, p.batch, BatchSize - 1)} :
              /\ nextIndex' = s.w.nextIndex
              /\ accounts' = s.w.accounts
              /\ lastScan' = [batch |-> p.batch, i |-> s.i, err |-> "none",
                              before |-> p.w.accounts, after |-> s.w.accounts,
                              nextIndex |-> s.w.nextIndex, again |-> ScanAgain(s.i)]
              /\ scanPc' = IF ScanAgain(s.i) THEN "recurse" ELSE "idle"
    /\ UNCHANGED <<impl, seed, isBip39, isBanano, lgPending, lgFrontier, lastNew>>
    /\ UNCHANGED notWallet

WalletNext ==
    \/ \E index \in {NoIndex} \cup (0..MaxExplicit) : CallNewAccount(index)
    \/ \E rpcErr \in {"none", "AccountsBalances", "AccountsFrontiers"} :
         ScanForAccounts(rpcErr)

-----------------------------------------------------------------------------
(* Wallet.NewAccount(nil), called from several goroutines at once *)

Callers == 1..NumCallers
NoCaller == 0

\* the wallet constructors that give a wallet able to derive accounts
SeedConstructors == {c \in Constructors : c.impl = "seed"}

ConcInit ==
    /\ \E c \in SeedConstructors :
         /\ impl = c.impl
         /\ seed = c.seed
         /\ isBip39 = c.isBip39
         /\ isBanano = c.isBanano
    /\ nextIndex = 0
    /\ accounts = <<>>
    /\ lgPending = {} /\ lgFrontier = {}
    /\ scanPc = "off" /\ lastNew = <<>> /\ lastScan = <<>> /\ calls = 0
    /\ pc = [p \in Callers |-> "start"]
    /\ callerIndex2 = [p \in Callers |-> NoIndex]
    /\ acct = [p \in Callers |-> NoAccount]
    /\ tmp = [p \in Callers |-> 0]
    /\ inserted = [p \in Callers |-> FALSE]
    /\ accountsMutex = NoCaller

\* what a step of NewAccount leaves alone besides what it names
ConcFrame ==
    /\ UNCHANGED <<impl, seed, isBip39, isBanano, lgPending, lgFrontier,
                   scanPc, lastNew, lastScan, calls>>
    /\ UNCHANGED notConc

\* index2 := w.nextIndex, and the account built from it
ReadNextIndex(p) ==
    /\ pc[p] = "start"
    /\ callerIndex2' = [callerIndex2 EXCEPT ![p] = nextIndex]
    /\ LET d == deriveAccount([w |-> Wallet(nextIndex, accounts), index |-> nextIndex])
       IN  IF d.err # ""
           THEN /\ acct' = [acct EXCEPT ![p] = [NoAccount EXCEPT !.index = nextIndex]]
                /\ pc' = [pc EXCEPT ![p] = "failed"]
           ELSE /\ acct' = [acct EXCEPT ![p] =
                              [index |-> nextIndex, pubkey |-> d.pubkey, key |-> d.key,
                               address |-> AddressOf(nextIndex)]]
                /\ pc' = [pc EXCEPT ![p] = "increment"]
    /\ UNCHANGED <<nextIndex, accounts, tmp, inserted, accountsMutex>>
    /\ ConcFrame

\* w.nextIndex++: the load
LoadNextIndex(p) ==
    /\ pc[p] = "increment"
    /\ tmp' = [tmp EXCEPT ![p] = nextIndex]
    /\ pc' = [pc EXCEPT ![p] = "store"]
    /\ UNCHANGED <<nextIndex, accounts, callerIndex2, acct, inserted, accountsMutex>>
    /\ ConcFrame

\* w.nextIndex++: the store
StoreNextIndex(p) ==
    /\ pc[p] = "store"
    /\ nextIndex' = tmp[p] + 1
    /\ pc' = [pc EXCEPT ![p] = "lock"]
    /\ UNCHANGED <<accounts, callerIndex2, acct, tmp, inserted, accountsMutex>>
    /\ ConcFrame

\* w.accountsMutex.Lock()
Lock(p) ==
    /\ pc[p] = "lock"
    /\ accountsMutex = NoCaller
    /\ accountsMutex' = p
    /\ pc' = [pc EXCEPT ![p] = "insert"]
    /\ UNCHANGED <<nextIndex, accounts, callerIndex2, acct, tmp, inserted>>
    /\ ConcFrame

\* the presence check and the insert, and the deferred Unlock
InsertAndUnlock(p) ==
    /\ pc[p] = "insert"
    /\ accountsMutex = p
    /\ IF acct[p].address \notin DOMAIN accounts
       THEN /\ accounts' = RegistryPut(accounts, acct[p])
            /\ inserted' = [inserted EXCEPT ![p] = TRUE]
       ELSE /\ accounts' = accounts
            /\ inserted' = [inserted EXCEPT ![p] = FALSE]
    /\ accountsMutex' = NoCaller
    /\ pc' = [pc EXCEPT ![p] = "check"]
    /\ UNCHANGED <<nextIndex, callerIndex2, acct, tmp>>
    /\ ConcFrame

\* if !done && index == nil { return w.NewAccount(nil) }; return
ReturnOrRetry(p) ==
    /\ pc[p] = "check"
    /\ pc' = [pc EXCEPT ![p] = IF inserted[p] THEN "returned" ELSE "start"]
    /\ UNCHANGED <<nextIndex, accounts, callerIndex2, acct, tmp, inserted, accountsMutex>>
    /\ ConcFrame

ConcNext ==
    \E p \in Callers :
        \/ ReadNextIndex(p)
        \/ LoadNextIndex(p)
        \/ StoreNextIndex(p)
        \/ Lock(p)
        \/ InsertAndUnlock(p)
        \/ ReturnOrRetry(p)

-----------------------------------------------------------------------------
(* Addresses, hashes, blocks *)

\* the empty string, a nil hash, and make(rpc.BlockHash, 32)
EmptyString == <<>>
NilHash == <<>>
ZeroHash == <<"zero32">>

\* util.AddressToPubkey: the public key of an address, or an error
AddressToPubkey(address) ==
    IF Len(address) = 2 /\ address[1] \in {"nano_", "ban_"}
    THEN [err |-> "", pubkey |-> address[2]]
    ELSE [err |-> "invalid address", pubkey |-> <<>>]

\* the fallback representative of receivePending
DefaultRepresentative == PubkeyToAddress(<<"pub", "3gonano8jnse4zm65jaiki9tk8ry4jtgc1smarinukho6fmbc45k3icsh6en">>)

\* hex.DecodeString of w.WorkDifficulty and of w.ReceiveWorkDifficulty
WorkDifficulty == <<"bytes", "fffffff800000000">>
ReceiveWorkDifficulty == <<"bytes", "fffffe0000000000">>

NoBlock ==
    [type |-> "", account |-> <<>>, previous |-> NilHash, representative |-> EmptyString,
     balance |-> 0, link |-> NilHash, signature |-> <<>>, work |-> <<>>]

\* rpc.Block.Hash: the hash of the block's account, previous, representative,
\* balance and link; it fails when an address of the block does not decode
BlockHash(b) ==
    IF AddressToPubkey(b.account).err # "" \/ AddressToPubkey(b.representative).err # ""
    THEN [err |-> "invalid address", hash |-> NilHash]
    ELSE [err |-> "",
          hash |-> <<"hash", b.account, b.previous, b.representative, b.balance, b.link>>]

\* the account of derivation index a, as NewAccount built it
AccountOf(a) == NewAccount(Wallet(0, <<>>), a, 0).a

\* w.impl.signBlock(a, block)
signBlock(a, block) ==
    IF impl = "ledger"
    THEN [err |-> "ledger support not available", block |-> block]
    ELSE LET h == BlockHash(block)
         IN  IF h.err # "" THEN [err |-> h.err, block |-> block]
             ELSE [err |-> "",
                   block |-> [block EXCEPT !.signature = <<"sig", AccountOf(a).key, h.hash>>]]

\* w.RPCWork.WorkGenerate(data, difficulty), and pow.Generate(data, difficulty)
\* when it fails
WorkToken(d, diff, remoteOk) ==
    <<"work", IF remoteOk THEN "remote" ELSE "local", d, diff>>

\* w.workGenerate(data)
workGenerate(d, remoteOk) == WorkToken(d, WorkDifficulty, remoteOk)

\* w.workGenerateReceive(data)
workGenerateReceiveAtSendDifficulty(d, remoteOk) == WorkToken(d, WorkDifficulty, remoteOk)
workGenerateReceive(d, remoteOk) == WorkToken(d, ReceiveWorkDifficulty, remoteOk)

-----------------------------------------------------------------------------
(* The ledger node, as the rpc client shows it *)

\* the hash of source block s, and its key in the reply of AccountsPending
SourceHash(s) == <<"src", s>>
HexKey(s) == <<"hex", SourceHash(s)>>
\* hex.DecodeString(hash)
HexDecode(k) == IF Len(k) = 2 /\ k[1] = "hex" THEN [err |-> "", bytes |-> k[2]]
                ELSE [err |-> "invalid hex", bytes |-> NilHash]
SourceIds == 1..MaxPending
\* the amount source block s carries
SourceAmount(s) == s

\* the zero value of rpc.AccountInfo
NoInfo == [frontier |-> NilHash, balance |-> 0, representative |-> EmptyString]

\* one entry of an operation's record of its ledger calls
LogEntry(rpc, ok, block, subtype) ==
    [rpc |-> rpc, ok |-> ok, block |-> block, subtype |-> subtype]

\* the call about to be made (the calls are numbered from 1) fails to reach
\* the node when its number is in fails
Unreachable(st, fails) == (Len(st.log) + 1) \in fails

\* c.AccountInfo(address); st holds the node's state of the account and the log
AccountInfo(st, fails) ==
    IF Unreachable(st, fails)
    THEN [err |-> "communication failure", info |-> NoInfo,
          st |-> [st EXCEPT !.log = Append(@, LogEntry("account_info", FALSE, NoBlock, ""))]]
    ELSE IF st.L.frontier = NilHash
    THEN [err |-> "Account not found", info |-> NoInfo,
          st |-> [st EXCEPT !.log = Append(@, LogEntry("account_info", TRUE, NoBlock, ""))]]
    ELSE [err |-> "",
          info |-> [frontier |-> st.L.frontier, balance |-> st.L.balance,
                    representative |-> st.L.representative],
          st |-> [st EXCEPT !.log = Append(@, LogEntry("account_info", TRUE, NoBlock, ""))]]

\* c.BlockInfo(hash): the amount of a source block the node knows
BlockInfo(st, link, fails) ==
    IF Unreachable(st, fails)
    THEN [err |-> "communication failure", amount |-> 0,
          st |-> [st EXCEPT !.log = Append(@, LogEntry("block_info", FALSE, NoBlock, ""))]]
    ELSE IF \E s \in SourceIds : link = SourceHash(s) /\ s \in st.S
    THEN [err |-> "",
          amount |-> SourceAmount(CHOOSE s \in SourceIds : link = SourceHash(s)),
          st |-> [st EXCEPT !.log = Append(@, LogEntry("block_info", TRUE, NoBlock, ""))]]
    ELSE [err |-> "Block not found", amount |-> 0,
          st |-> [st EXCEPT !.log = Append(@, LogEntry("block_info", TRUE, NoBlock, ""))]]

\* the node's verdict on a block published for the account
NodeAccepts(st, block, subtype) ==
    /\ block.previous = (IF st.L.frontier = NilHash THEN ZeroHash ELSE st.L.frontier)
    /\ BlockHash(block).err = ""
    /\ CASE subtype = "send" ->
              /\ st.L.frontier # NilHash
              /\ block.balance >= 0 /\ block.balance < st.L.balance
         [] subtype = "receive" ->
              \E s \in DOMAIN st.P :
                  /\ block.link = SourceHash(s)
                  /\ block.balance = st.L.balance + st.P[s]
         [] OTHER ->
              /\ st.L.frontier # NilHash
              /\ block.balance = st.L.balance /\ block.link = ZeroHash

\* c.Process(block, subtype)
Process(st, block, subtype, fails) ==
    IF Unreachable(st, fails)
    THEN [err |-> "communication failure", hash |-> NilHash,
          st |-> [st EXCEPT !.log = Append(@, LogEntry("process", FALSE, block, subtype))]]
    ELSE IF ~NodeAccepts(st, block, subtype)
    THEN [err |-> "block rejected", hash |-> NilHash,
          st |-> [st EXCEPT !.log = Append(@, LogEntry("process", TRUE, block, subtype))]]
    ELSE [err |-> "", hash |-> BlockHash(block).hash,
          st |-> [st EXCEPT
                    !.log = Append(@, LogEntry("process", TRUE, block, subtype)),
                    !.L = [frontier |-> BlockHash(block).hash, balance |-> block.balance,
                           representative |-> block.representative,
                           height |-> st.L.height + 1],
                    !.P = IF subtype = "receive"
                          THEN [s \in {t \in DOMAIN st.P : SourceHash(t) # block.link}
                                  |-> st.P[s]]
                          ELSE st.P]]

\* c.AccountsPending(accounts, -1, threshold), for one account of the list
AccountsPending(st, threshold, fails) ==
    IF Unreachable(st, fails)
    THEN [err |-> "communication failure", pendings |-> <<>>,
          st |-> [st EXCEPT !.log = Append(@, LogEntry("accounts_pending", FALSE, NoBlock, ""))]]
    ELSE [err |-> "",
          pendings |-> [k \in {HexKey(s) : s \in {t \in DOMAIN st.P : st.P[t] >= threshold}}
                          |-> st.P[CHOOSE s \in DOMAIN st.P : HexKey(s) = k]],
          st |-> [st EXCEPT !.log = Append(@, LogEntry("accounts_pending", TRUE, NoBlock, ""))]]

-----------------------------------------------------------------------------
(* Account: block construction and submission *)

\* what an operation returns and leaves behind: its error, the blocks and the
\* hash it returned, the cached representative and the node's state
Outcome(err, blocks, hash, r, st) ==
    [err |-> err, blocks |-> blocks, hash |-> hash, rep |-> r, st |-> st]

\* a.SendBlock(account, amount); r is a.representative
SendBlockWithoutFundsCheck(a, r, account, amount, st, fails) ==
    LET link == AddressToPubkey(account)
        q == AccountInfo(st, fails)
        r2 == IF r = EmptyString THEN q.info.representative ELSE r
        balance == q.info.balance - amount
        block == [type |-> "state", account |-> AccountOf(a).address,
                  previous |-> q.info.frontier, representative |-> r2,
                  balance |-> balance, link |-> link.pubkey,
                  signature |-> <<>>, work |-> <<>>]
        sg == signBlock(a, block)
    IN  IF link.err # "" THEN Outcome(link.err, <<>>, NilHash, r, st)
        ELSE IF q.err # "" THEN Outcome(q.err, <<>>, NilHash, r, q.st)
        ELSE Outcome(sg.err, <<sg.block>>, NilHash, r2, q.st)
SendBlock(a, r, account, amount, st, fails) ==
    LET link == AddressToPubkey(account)
        q == AccountInfo(st, fails)
        r2 == IF r = EmptyString THEN q.info.representative ELSE r
        balance == q.info.balance - amount
        block == [type |-> "state", account |-> AccountOf(a).address,
                  previous |-> q.info.frontier, representative |-> r2,
                  balance |-> balance, link |-> link.pubkey,
                  signature |-> <<>>, work |-> <<>>]
        sg == signBlock(a, block)
    IN  IF link.err # "" THEN Outcome(link.err, <<>>, NilHash, r, st)
        ELSE IF q.err # "" THEN Outcome(q.err, <<>>, NilHash, r, q.st)
        ELSE IF balance < 0 THEN Outcome("insufficient funds", <<>>, NilHash, r2, q.st)
        ELSE Outcome(sg.err, <<sg.block>>, NilHash, r2, q.st)

\* a.Send(account, amount)
Send(a, r, account, amount, st, fails, remoteOk) ==
    LET sb == SendBlock(a, r, account, amount, st, fails)
        block == [sb.blocks[1] EXCEPT !.work = workGenerate(sb.blocks[1].previous, remoteOk)]
        pr == Process(sb.st, block, "send", fails)
    IN  IF sb.err # "" THEN Outcome(sb.err, <<>>, NilHash, sb.rep, sb.st)
        ELSE Outcome(pr.err, <<>>, pr.hash, sb.rep, pr.st)

\* the loop of a.SendBlocks over the destinations left; balance is info.Balance
\* as the loop has decremented it, frontier the hash to build on
RECURSIVE SendBlocksLoopFromFetchedFrontier(_, _, _, _, _, _, _, _)
SendBlocksLoopFromFetchedFrontier(a, r, info, balance, frontier, destinations, blocks, st) ==
    IF destinations = <<>> THEN Outcome("", blocks, NilHash, r, st)
    ELSE LET destination == Head(destinations)
             link == AddressToPubkey(destination.account)
             r2 == IF r = EmptyString THEN info.representative ELSE r
             balance2 == balance - destination.amount
             block == [type |-> "state", account |-> AccountOf(a).address,
                       previous |-> info.frontier, representative |-> r2,
                       balance |-> balance2, link |-> link.pubkey,
                       signature |-> <<>>, work |-> <<>>]
             sg == signBlock(a, block)
             h == BlockHash(sg.block)
         IN  IF link.err # "" THEN Outcome(link.err, <<>>, NilHash, r, st)
             ELSE IF balance2 < 0 THEN Outcome("insufficient funds", <<>>, NilHash, r2, st)
             ELSE IF sg.err # "" THEN Outcome(sg.err, <<>>, NilHash, r2, st)
             ELSE IF h.err # "" THEN Outcome(h.err, <<>>, NilHash, r2, st)
             ELSE SendBlocksLoopFromFetchedFrontier(a, r2, info, balance2, h.hash,
                                   Tail(destinations), Append(blocks, sg.block), st)
RECURSIVE SendBlocksLoop(_, _, _, _, _, _, _, _)
SendBlocksLoop(a, r, info, balance, frontier, destinations, blocks, st) ==
    IF destinations = <<>> THEN Outcome("", blocks, NilHash, r, st)
    ELSE LET destination == Head(destinations)
             link == AddressToPubkey(destination.account)
             r2 == IF r = EmptyString THEN info.representative ELSE r
             balance2 == balance - destination.amount
             block == [type |-> "state", account |-> AccountOf(a).address,
                       previous |-> frontier, representative |-> r2,
                       balance |-> balance2, link |-> link.pubkey,
                       signature |-> <<>>, work |-> <<>>]
             sg == signBlock(a, block)
             h == BlockHash(sg.block)
         IN  IF link.err # "" THEN Outcome(link.err, <<>>, NilHash, r, st)
             ELSE IF balance2 < 0 THEN Outcome("insufficient funds", <<>>, NilHash, r2, st)
             ELSE IF sg.err # "" THEN Outcome(sg.err, <<>>, NilHash, r2, st)
             ELSE IF h.err # "" THEN Outcome(h.err, <<>>, NilHash, r2, st)
             ELSE SendBlocksLoop(a, r2, info, balance2, h.hash,
                                 Tail(destinations), Append(blocks, sg.block), st)

\* a.SendBlocks(destinations)
SendBlocks(a, r, destinations, st, fails) ==
    LET q == AccountInfo(st, fails)
    IN  IF q.err # "" THEN Outcome(q.err, <<>>, NilHash, r, q.st)
        ELSE SendBlocksLoop(a, r, q.info, q.info.balance, q.info.frontier,
                            destinations, <<>>, q.st)

\* a.receivePending(info, link): info is the caller's copy of the chain info
receivePendingWorkOverFrontier(a, r, info, link, st, fails, remoteOk) ==
    LET previous == IF info.frontier = NilHash THEN ZeroHash ELSE info.frontier
        r2 == IF r # EmptyString THEN r
              ELSE IF info.representative # EmptyString THEN info.representative
              ELSE DefaultRepresentative
        block == [type |-> "state", account |-> AccountOf(a).address,
                  previous |-> previous, representative |-> r2,
                  balance |-> info.balance, link |-> link,
                  signature |-> <<>>, work |-> <<>>]
        sg == signBlock(a, block)
        worked == [sg.block EXCEPT !.work = workGenerateReceive(previous, remoteOk)]
        pr == Process(st, worked, "receive", fails)
    IN  IF sg.err # "" THEN Outcome(sg.err, <<>>, NilHash, r2, st)
        ELSE Outcome(pr.err, <<>>, pr.hash, r2, pr.st)
receivePendingLedgerRepFirst(a, r, info, link, st, fails, remoteOk) ==
    LET workHash == IF info.frontier = NilHash THEN AccountOf(a).pubkey ELSE info.frontier
        previous == IF info.frontier = NilHash THEN ZeroHash ELSE info.frontier
        r2 == IF info.representative # EmptyString THEN info.representative
              ELSE IF r # EmptyString THEN r
              ELSE DefaultRepresentative
        block == [type |-> "state", account |-> AccountOf(a).address,
                  previous |-> previous, representative |-> r2,
                  balance |-> info.balance, link |-> link,
                  signature |-> <<>>, work |-> <<>>]
        sg == signBlock(a, block)
        worked == [sg.block EXCEPT !.work = workGenerateReceive(workHash, remoteOk)]
        pr == Process(st, worked, "receive", fails)
    IN  IF sg.err # "" THEN Outcome(sg.err, <<>>, NilHash, r2, st)
        ELSE Outcome(pr.err, <<>>, pr.hash, r2, pr.st)
receivePending(a, r, info, link, st, fails, remoteOk) ==
    LET workHash == IF info.frontier = NilHash THEN AccountOf(a).pubkey ELSE info.frontier
        previous == IF info.frontier = NilHash THEN ZeroHash ELSE info.frontier
        r2 == IF r # EmptyString THEN r
              ELSE IF info.representative # EmptyString THEN info.representative
              ELSE DefaultRepresentative
        block == [type |-> "state", account |-> AccountOf(a).address,
                  previous |-> previous, representative |-> r2,
                  balance |-> info.balance, link |-> link,
                  signature |-> <<>>, work |-> <<>>]
        sg == signBlock(a, block)
        worked == [sg.block EXCEPT !.work = workGenerateReceive(workHash, remoteOk)]
        pr == Process(st, worked, "receive", fails)
    IN  IF sg.err # "" THEN Outcome(sg.err, <<>>, NilHash, r2, st)
        ELSE Outcome(pr.err, <<>>, pr.hash, r2, pr.st)

\* the loop of a.receivePendings over the keys of pendings, in the order the
\* map iteration gives them; remote[k] tells whether the work server answers
\* for the k-th block
RECURSIVE receivePendingsLoopBalanceNotCarried(_, _, _, _, _, _, _, _)
receivePendingsLoopBalanceNotCarried(a, r, info, pendings, order, st, fails, remote) ==
    IF order = <<>> THEN Outcome("", <<>>, NilHash, r, st)
    ELSE LET hash == Head(order)
             link == HexDecode(hash)
             info2 == [info EXCEPT !.balance = @ + pendings[hash]]
             rp == receivePending(a, r, info2, link.bytes, st, fails, Head(remote))
         IN  IF link.err # "" THEN Outcome(link.err, <<>>, NilHash, r, st)
             ELSE IF rp.err # "" THEN Outcome(rp.err, <<>>, NilHash, rp.rep, rp.st)
             ELSE receivePendingsLoopBalanceNotCarried(a, rp.rep,
                                      [info EXCEPT !.frontier = rp.hash],
                                      pendings, Tail(order), rp.st, fails, Tail(remote))
RECURSIVE receivePendingsLoop(_, _, _, _, _, _, _, _)
receivePendingsLoop(a, r, info, pendings, order, st, fails, remote) ==
    IF order = <<>> THEN Outcome("", <<>>, NilHash, r, st)
    ELSE LET hash == Head(order)
             link == HexDecode(hash)
             info2 == [info EXCEPT !.balance = @ + pendings[hash]]
             rp == receivePending(a, r, info2, link.bytes, st, fails, Head(remote))
         IN  IF link.err # "" THEN Outcome(link.err, <<>>, NilHash, r, st)
             ELSE IF rp.err # "" THEN Outcome(rp.err, <<>>, NilHash, rp.rep, rp.st)
             ELSE receivePendingsLoop(a, rp.rep, [info2 EXCEPT !.frontier = rp.hash],
                                      pendings, Tail(order), rp.st, fails, Tail(remote))

\* a.receivePendings(pendings)
receivePendingsAlwaysQuerying(a, r, pendings, order, st, fails, remote) ==
    LET q == AccountInfo(st, fails)
    IN  receivePendingsLoop(a, r, q.info, pendings, order, q.st, fails, remote)
receivePendings(a, r, pendings, order, st, fails, remote) ==
    IF DOMAIN pendings = {} THEN Outcome("", <<>>, NilHash, r, st)
    ELSE LET q == AccountInfo(st, fails)
         IN  receivePendingsLoop(a, r, q.info, pendings, order, q.st, fails, remote)

\* a.ReceivePendings(threshold)
ReceivePendings(a, r, threshold, order, st, fails, remote) ==
    LET ap == AccountsPending(st, threshold, fails)
    IN  IF ap.err # "" THEN Outcome(ap.err, <<>>, NilHash, r, ap.st)
        ELSE receivePendings(a, r, ap.pendings, order, ap.st, fails, remote)

\* a.ReceivePending(link)
ReceivePending(a, r, link, st, fails, remoteOk) ==
    LET q == AccountInfo(st, fails)
        bi == BlockInfo(q.st, link, fails)
        info == [q.info EXCEPT !.balance = @ + bi.amount]
    IN  IF bi.err # "" THEN Outcome(bi.err, <<>>, NilHash, r, bi.st)
        ELSE receivePending(a, r, info, link, bi.st, fails, remoteOk)

\* a.SetRep(representative)
SetRep(a, r, representative, st) ==
    IF AddressToPubkey(representative).err # ""
    THEN Outcome(AddressToPubkey(representative).err, <<>>, NilHash, r, st)
    ELSE Outcome("", <<>>, NilHash, representative, st)

\* w.workGenerate and w.workGenerateReceive return an error when the remote
\* service does not answer and pow.Generate returns an error too
WorkFails(remoteOk, localOk) == ~remoteOk /\ ~localOk

\* a.ChangeRep(representative)
ChangeRepCachingBeforeSubmit(a, r, representative, st, fails, remoteOk, localOk) ==
    LET q == AccountInfo(st, fails)
        block == [type |-> "state", account |-> AccountOf(a).address,
                  previous |-> q.info.frontier, representative |-> representative,
                  balance |-> q.info.balance, link |-> ZeroHash,
                  signature |-> <<>>, work |-> <<>>]
        sg == signBlock(a, block)
        worked == [sg.block EXCEPT !.work = workGenerate(q.info.frontier, remoteOk)]
        pr == Process(q.st, worked, "change", fails)
    IN  IF q.err # "" THEN Outcome(q.err, <<>>, NilHash, r, q.st)
        ELSE IF sg.err # "" THEN Outcome(sg.err, <<>>, NilHash, r, q.st)
        ELSE IF WorkFails(remoteOk, localOk)
        THEN Outcome("work generation failed", <<>>, NilHash, representative, q.st)
        ELSE Outcome(pr.err, <<>>, pr.hash, representative, pr.st)
ChangeRep(a, r, representative, st, fails, remoteOk, localOk) ==
    LET q == AccountInfo(st, fails)
        block == [type |-> "state", account |-> AccountOf(a).address,
                  previous |-> q.info.frontier, representative |-> representative,
                  balance |-> q.info.balance, link |-> ZeroHash,
                  signature |-> <<>>, work |-> <<>>]
        sg == signBlock(a, block)
        worked == [sg.block EXCEPT !.work = workGenerate(q.info.frontier, remoteOk)]
        pr == Process(q.st, worked, "change", fails)
    IN  IF q.err # "" THEN Outcome(q.err, <<>>, NilHash, r, q.st)
        ELSE IF sg.err # "" THEN Outcome(sg.err, <<>>, NilHash, r, q.st)
        ELSE IF WorkFails(remoteOk, localOk)
        THEN Outcome("work generation failed", <<>>, NilHash, r, q.st)
        ELSE Outcome(pr.err, <<>>, pr.hash, IF pr.err = "" THEN representative ELSE r, pr.st)

\* the node's state of account a, and the calls made so far, within the state
\* world of all the wallet's accounts
StOf(world, a) ==
    [L |-> world.lg[a], P |-> world.pend[a], S |-> world.seen[a], log |-> world.log]

\* the loop of w.ReceivePendings over the accounts of the reply, in the order
\* the map iteration gives them; orders[a] is the order account a's
\* receivePendings iterates its entries in
RECURSIVE WalletReceivePendingsLoop(_, _, _, _, _, _)
WalletReceivePendingsLoop(world, pendings, acctOrder, orders, fails, remote) ==
    IF acctOrder = <<>> THEN [err |-> "", world |-> world]
    ELSE LET a == Head(acctOrder)
             \* the state once account a's receivePendings returned out
             After(out) == [world EXCEPT !.rep[a] = out.rep, !.lg[a] = out.st.L,
                                         !.pend[a] = out.st.P, !.log = out.st.log]
         IN  CHOOSE returned \in
                 {IF out.err # "" THEN [err |-> out.err, world |-> After(out)]
                  ELSE WalletReceivePendingsLoop(After(out), pendings, Tail(acctOrder),
                                                 orders, fails, remote) :
                    out \in {receivePendings(a, world.rep[a], pendings[a], orders[a],
                                             StOf(world, a), fails, remote)}} : TRUE

\* w.ReceivePendings(threshold)
WalletReceivePendings(world, threshold, acctOrder, orders, fails, remote) ==
    IF Unreachable(world, fails)
    THEN [err |-> "communication failure",
          world |-> [world EXCEPT
                       !.log = Append(@, LogEntry("accounts_pending", FALSE, NoBlock, ""))]]
    ELSE LET pendings == [a \in DOMAIN world.lg |->
                             AccountsPending(StOf(world, a), threshold, {}).pendings]
         IN  WalletReceivePendingsLoop(
                 [world EXCEPT
                    !.log = Append(@, LogEntry("accounts_pending", TRUE, NoBlock, ""))],
                 pendings, acctOrder, orders, fails, remote)

-----------------------------------------------------------------------------
(* The operations of an account, called one at a time *)

\* addresses callers pass: a destination, two representatives, and a string
\* that is no address
DestAddress == PubkeyToAddress(<<"pub", "destination">>)
RepOnLedger == PubkeyToAddress(<<"pub", "representative on ledger">>)
RepChosen == PubkeyToAddress(<<"pub", "representative chosen">>)
BadAddress == <<"not an address">>

\* the node's record of an account that was never used, and of one opened
\* with balance b
Unopened == [frontier |-> NilHash, balance |-> 0, representative |-> EmptyString,
             height |-> 0]
Opened(a, b) == [frontier |-> <<"hash", "open", a>>, balance |-> b,
                 representative |-> RepOnLedger, height |-> 0]

\* the amounts callers ask to send from account a, around its balance
SendAmounts(a) == {-1, 0, 1, lg[a].balance, lg[a].balance + 1}

\* the sequences of length n over S
RECURSIVE SeqsOf(_, _)
SeqsOf(S, n) ==
    IF n = 0 THEN {<<>>}
    ELSE {Append(q, e) : q \in SeqsOf(S, n - 1), e \in S}

\* the orders in which a map with key set K may be iterated
Orders(K) == {q \in SeqsOf(K, Cardinality(K)) : {q[i] : i \in 1..Len(q)} = K}

NoArgs == [account |-> <<>>, amount |-> 0, destinations |-> <<>>, threshold |-> 0,
           link |-> NilHash, representative |-> <<>>, remote |-> <<>>]

\* no operation is in progress or waiting to be looked at
NoRet == [op |-> "", a |-> 0, args |-> NoArgs, err |-> "", blocks |-> <<>>,
          hash |-> NilHash, log |-> <<>>,
          pre |-> [L |-> Unopened, P |-> <<>>, rep |-> EmptyString, clean |-> {}]]

St(a) == [L |-> lg[a], P |-> pend[a], S |-> seen[a], log |-> <<>>]

\* the state after account a's operation op returned out
Returned(a, op, args, out) ==
    /\ ret.op = ""
    /\ rep' = [rep EXCEPT ![a] = out.rep]
    /\ lg' = [lg EXCEPT ![a] = out.st.L]
    /\ pend' = [pend EXCEPT ![a] = out.st.P]
    /\ ret' = [op |-> op, a |-> a, args |-> args, err |-> out.err, blocks |-> out.blocks,
               hash |-> out.hash, log |-> out.st.log,
               pre |-> [L |-> lg[a], P |-> pend[a], rep |-> rep[a], clean |-> clean[a]]]
    /\ UNCHANGED <<accts, seen>>
    /\ UNCHANGED notAcct

AcctInitOf(registered) ==
    /\ accts = registered
    /\ rep = [a \in accts |-> EmptyString]
    /\ lg \in [accts -> {Unopened} \cup {Opened(a, MaxPending) : a \in accts}]
    /\ \A a \in accts : lg[a] \in {Unopened, Opened(a, MaxPending)}
    /\ pend = [a \in accts |-> <<>>]
    /\ seen = [a \in accts |-> {}]
    /\ clean = [a \in accts |-> {}]
    /\ ret = NoRet

\* one account, of derivation index 0
AcctInit == AcctInitOf({0})

\* the network: somebody sends source block s to account a
Deposit(a, s) ==
    /\ ret.op = ""
    /\ \A b \in accts : s \notin seen[b]
    /\ seen' = [seen EXCEPT ![a] = @ \cup {s}]
    /\ pend' = [pend EXCEPT ![a] =
                  [t \in (DOMAIN pend[a]) \cup {s} |->
                      IF t = s THEN SourceAmount(s) ELSE pend[a][t]]]
    /\ clean' = [clean EXCEPT ![a] = {}]
    /\ UNCHANGED <<accts, rep, lg, ret>>
    /\ UNCHANGED notAcct

CallSendBlock(a, account, amount, fails) ==
    /\ \E out \in {SendBlock(a, rep[a], account, amount, St(a), fails)} :
         Returned(a, "SendBlock", [NoArgs EXCEPT !.account = account, !.amount = amount], out)
    /\ UNCHANGED clean

CallSend(a, account, amount, fails, remoteOk) ==
    /\ lg[a].height < MaxHeight
    /\ \E out \in {Send(a, rep[a], account, amount, St(a), fails, remoteOk)} :
         Returned(a, "Send", [NoArgs EXCEPT !.account = account, !.amount = amount,
                                            !.remote = <<remoteOk>>], out)
    /\ UNCHANGED clean

CallSendBlocks(a, destinations, fails) ==
    /\ \E out \in {SendBlocks(a, rep[a], destinations, St(a), fails)} :
         Returned(a, "SendBlocks", [NoArgs EXCEPT !.destinations = destinations], out)
    /\ UNCHANGED clean

CallReceivePendings(a, threshold, order, fails, remote) ==
    /\ lg[a].height < MaxHeight \/ order = <<>>
    /\ \E out \in {ReceivePendings(a, rep[a], threshold, order, St(a), fails, remote)} :
         /\ Returned(a, "ReceivePendings",
                     [NoArgs EXCEPT !.threshold = threshold,
                                    !.remote = SubSeq(remote, 1, Len(order))], out)
         /\ clean' = [clean EXCEPT ![a] = IF out.err = "" THEN @ \cup {threshold} ELSE @]

CallReceivePending(a, link, fails, remoteOk) ==
    /\ lg[a].height < MaxHeight
    /\ \E out \in {ReceivePending(a, rep[a], link, St(a), fails, remoteOk)} :
         Returned(a, "ReceivePending",
                  [NoArgs EXCEPT !.link = link, !.remote = <<remoteOk>>], out)
    /\ UNCHANGED clean

CallSetRep(a, representative) ==
    /\ \E out \in {SetRep(a, rep[a], representative, St(a))} :
         Returned(a, "SetRep", [NoArgs EXCEPT !.representative = representative], out)
    /\ UNCHANGED clean

CallChangeRep(a, representative, fails, remoteOk, localOk) ==
    /\ lg[a].height < MaxHeight
    /\ \E out \in {ChangeRep(a, rep[a], representative, St(a), fails, remoteOk, localOk)} :
         Returned(a, "ChangeRep", [NoArgs EXCEPT !.representative = representative,
                                                 !.remote = <<remoteOk>>], out)
    /\ UNCHANGED clean

\* the keys of the entries of account a the node reports at a threshold
PendingKeys(a, threshold) ==
    {HexKey(s) : s \in {t \in DOMAIN pend[a] : pend[a][t] >= threshold}}

CallWalletReceivePendings(threshold, acctOrder, orders, fails, remote) ==
    /\ ret.op = ""
    /\ \E out \in {WalletReceivePendings([rep |-> rep, lg |-> lg, pend |-> pend,
                                          seen |-> seen, log |-> <<>>],
                                         threshold, acctOrder, orders, fails, remote)} :
         /\ rep' = out.world.rep
         /\ lg' = out.world.lg
         /\ pend' = out.world.pend
         /\ clean' = IF out.err = "" THEN [a \in accts |-> clean[a] \cup {threshold}]
                     ELSE clean
         /\ ret' = [op |-> "Wallet.ReceivePendings", a |-> NoIndex,
                    args |-> [NoArgs EXCEPT !.threshold = threshold],
                    err |-> out.err, blocks |-> <<>>, hash |-> NilHash,
                    log |-> out.world.log,
                    pre |-> [L |-> lg, P |-> pend, rep |-> rep, clean |-> clean]]
    /\ UNCHANGED <<accts, seen>>
    /\ UNCHANGED notAcct

\* the caller has looked at what the operation returned and goes on
CallerContinues ==
    /\ ret.op # ""
    /\ ret' = NoRet
    /\ UNCHANGED <<accts, rep, lg, pend, seen, clean>>
    /\ UNCHANGED notAcct

\* the ledger calls that fail to reach the node, in an operation making n calls
FailuresIn(n) == {f \in SUBSET (1..n) : Cardinality(f) <= 2}

\* the destination lists callers pass to SendBlocks
DestinationLists(a) ==
    UNION {SeqsOf({[account |-> DestAddress, amount |-> x] : x \in {-1, 1, lg[a].balance}}
                     \cup {[account |-> BadAddress, amount |-> 1]}, n) : n \in 1..MaxDests}

AcctNext ==
    \/ ret.op = "" /\ \E a \in accts, s \in SourceIds : Deposit(a, s)
    \/ ret.op = "" /\ \E a \in accts : \E account \in {DestAddress, BadAddress}, amount \in SendAmounts(a),
          fails \in FailuresIn(1) :
         CallSendBlock(a, account, amount, fails)
    \/ ret.op = "" /\ \E a \in accts : \E account \in {DestAddress, BadAddress}, amount \in SendAmounts(a),
          fails \in FailuresIn(2), remoteOk \in BOOLEAN :
         CallSend(a, account, amount, fails, remoteOk)
    \/ ret.op = "" /\ \E a \in accts : \E destinations \in DestinationLists(a), fails \in FailuresIn(1) :
         CallSendBlocks(a, destinations, fails)
    \/ ret.op = "" /\ \E a \in accts, threshold \in {0, MaxPending}, remote \in SeqsOf(BOOLEAN, MaxPending) :
         \E order \in Orders(PendingKeys(a, threshold)) :
            \E fails \in FailuresIn(Len(order) + 2) :
               CallReceivePendings(a, threshold, order, fails, remote)
    \/ ret.op = "" /\ \E a \in accts, s \in SourceIds, fails \in FailuresIn(3), remoteOk \in BOOLEAN :
         CallReceivePending(a, SourceHash(s), fails, remoteOk)
    \/ ret.op = "" /\ \E a \in accts, representative \in {RepChosen, BadAddress} :
         CallSetRep(a, representative)
    \/ ret.op = "" /\ \E a \in accts, representative \in {RepChosen, BadAddress}, fails \in FailuresIn(2),
          remoteOk \in BOOLEAN, localOk \in BOOLEAN :
         CallChangeRep(a, representative, fails, remoteOk, localOk)
    \/ CallerContinues

\* the orders the accounts' pending maps may be iterated in
OrderChoices(threshold) ==
    {o \in [accts -> UNION {Orders(PendingKeys(a, threshold)) : a \in accts}] :
        \A a \in accts : o[a] \in Orders(PendingKeys(a, threshold))}

\* a wallet draining its accounts, all at once or one by one
DrainNext ==
    \/ ret.op = "" /\ \E a \in accts, s \in SourceIds : Deposit(a, s)
    \/ ret.op = "" /\ \E a \in accts, threshold \in {0, MaxPending} :
         \E order \in Orders(PendingKeys(a, threshold)) :
            \E fails \in FailuresIn(Len(order) + 2) :
               CallReceivePendings(a, threshold, order, fails, [k \in 1..MaxPending |-> TRUE])
    \/ ret.op = "" /\ \E threshold \in {0, MaxPending}, acctOrder \in Orders(accts) :
         \E orders \in OrderChoices(threshold) :
            \E fails \in FailuresIn(MaxPending + 3) :
               CallWalletReceivePendings(threshold, acctOrder, orders, fails,
                                         [k \in 1..MaxPending |-> TRUE])
    \/ CallerContinues

-----------------------------------------------------------------------------
(* Account.SendMultiple: the caller submits while a goroutine makes the work *)

\* the account SendMultiple is called on
Sender == 0

\* SendMultiple has not returned anything yet
NotReturned == [returned |-> FALSE, hashes |-> <<>>, err |-> ""]

MultiInit ==
    /\ accts = {Sender}
    /\ rep = [a \in accts |-> EmptyString]
    /\ lg = [a \in accts |-> Opened(a, MaxDests)]
    /\ pend = [a \in accts |-> <<>>]
    /\ seen = [a \in accts |-> {}]
    /\ clean = [a \in accts |-> {}]
    /\ ret = NoRet
    /\ smBlocks = <<>> /\ blocksWithWorkChan = <<>> /\ chanClosed = FALSE
    /\ ppc = "idle" /\ pi = 0 /\ cpc = "idle" /\ cBlock = 0 /\ hashes = <<>>
    /\ smErr = "" /\ pErr = "" /\ smLog = <<>> /\ smRet = NotReturned

\* what a step of SendMultiple leaves alone besides what it names
MultiFrame ==
    /\ UNCHANGED <<accts, pend, seen, clean, ret>>
    /\ UNCHANGED notMulti

\* blocks, err := a.SendBlocks(destinations), and the go statement
CallSendMultiple(destinations, fails) ==
    /\ cpc = "idle"
    /\ \E out \in {SendBlocks(Sender, rep[Sender], destinations, St(Sender), fails)} :
         /\ rep' = [rep EXCEPT ![Sender] = out.rep]
         /\ smLog' = out.st.log
         /\ smErr' = out.err
         /\ IF out.err # ""
            THEN /\ cpc' = "return"
                 /\ UNCHANGED <<smBlocks, ppc, pi>>
            ELSE /\ smBlocks' = out.blocks
                 /\ cpc' = "select"
                 /\ ppc' = "work"
                 /\ pi' = 1
    /\ UNCHANGED <<lg, blocksWithWorkChan, chanClosed, cBlock, hashes, pErr, smRet>>
    /\ MultiFrame

\* blocks[i].Work, err = a.w.workGenerate(blocks[i].Previous): the remote
\* service answers or not, and the local generation then succeeds or not
ProducerWork(remoteOk, localOk) ==
    /\ ppc = "work"
    /\ IF ~WorkFails(remoteOk, localOk)
       THEN /\ smBlocks' = [smBlocks EXCEPT ![pi].work =
                               workGenerate(smBlocks[pi].previous, remoteOk)]
            /\ smErr' = ""
       ELSE /\ smBlocks' = smBlocks
            /\ smErr' = "work generation failed"
    /\ ppc' = "test"
    /\ UNCHANGED <<rep, lg, blocksWithWorkChan, chanClosed, pi, cpc, cBlock, hashes,
                   pErr, smLog, smRet>>
    /\ MultiFrame

\* ; err != nil, read from the variable the caller shares
ProducerTest ==
    /\ ppc = "test"
    /\ IF smErr # ""
       THEN /\ ppc' = "sendErr"
            /\ pErr' = smErr
       ELSE /\ ppc' = "queue"
            /\ pErr' = pErr
    /\ UNCHANGED <<rep, lg, smBlocks, blocksWithWorkChan, chanClosed, pi, cpc, cBlock,
                   hashes, smErr, smLog, smRet>>
    /\ MultiFrame

\* blocksWithWorkChan <- blocks[i]; the buffer holds len(destinations)
ProducerQueue ==
    /\ ppc = "queue"
    /\ Len(blocksWithWorkChan) < Len(smBlocks)
    /\ blocksWithWorkChan' = Append(blocksWithWorkChan, pi)
    /\ pi' = pi + 1
    /\ ppc' = IF pi = Len(smBlocks) THEN "close" ELSE "work"
    /\ UNCHANGED <<rep, lg, smBlocks, chanClosed, cpc, cBlock, hashes, smErr, pErr,
                   smLog, smRet>>
    /\ MultiFrame

\* close(blocksWithWorkChan)
ProducerClose ==
    /\ ppc = "close"
    /\ chanClosed' = TRUE
    /\ ppc' = "done"
    /\ UNCHANGED <<rep, lg, smBlocks, blocksWithWorkChan, pi, cpc, cBlock, hashes,
                   smErr, pErr, smLog, smRet>>
    /\ MultiFrame

\* case block, ok := <-blocksWithWorkChan, with a block in the buffer
ReceiveBlock ==
    /\ cpc = "select"
    /\ blocksWithWorkChan # <<>>
    /\ cBlock' = Head(blocksWithWorkChan)
    /\ blocksWithWorkChan' = Tail(blocksWithWorkChan)
    /\ cpc' = "process"
    /\ UNCHANGED <<rep, lg, smBlocks, chanClosed, ppc, pi, hashes, smErr, pErr,
                   smLog, smRet>>
    /\ MultiFrame

\* case block, ok := <-blocksWithWorkChan with !ok: return hashes, nil
ReceiveClosed ==
    /\ cpc = "select"
    /\ blocksWithWorkChan = <<>> /\ chanClosed
    /\ smErr' = ""
    /\ cpc' = "return"
    /\ UNCHANGED <<rep, lg, smBlocks, blocksWithWorkChan, chanClosed, ppc, pi, cBlock,
                   hashes, pErr, smLog, smRet>>
    /\ MultiFrame

\* case err := <-errChan: return nil, err; the producer's send completes
ReceiveErr ==
    /\ cpc = "select"
    /\ ppc = "sendErr"
    /\ hashes' = <<>>
    /\ smErr' = pErr
    /\ ppc' = "done"
    /\ cpc' = "return"
    /\ UNCHANGED <<rep, lg, smBlocks, blocksWithWorkChan, chanClosed, pi, cBlock,
                   pErr, smLog, smRet>>
    /\ MultiFrame

\* hash, err := a.w.RPC.Process(block, "send"), and what follows it
ConsumerProcess(reached) ==
    /\ cpc = "process"
    /\ \E pr \in {Process([L |-> lg[Sender], P |-> pend[Sender], S |-> seen[Sender],
                           log |-> smLog],
                          smBlocks[cBlock], "send",
                          IF reached THEN {} ELSE {Len(smLog) + 1})} :
         /\ lg' = [lg EXCEPT ![Sender] = pr.st.L]
         /\ smLog' = pr.st.log
         /\ IF pr.err # ""
            THEN /\ hashes' = <<>>
                 /\ smErr' = pr.err
                 /\ cpc' = "return"
            ELSE /\ hashes' = Append(hashes, pr.hash)
                 /\ smErr' = smErr
                 /\ cpc' = "select"
    /\ UNCHANGED <<rep, smBlocks, blocksWithWorkChan, chanClosed, ppc, pi, cBlock,
                   pErr, smRet>>
    /\ MultiFrame

\* the function exit: the result parameters, which the closure shares, are
\* handed to the caller
ConsumerReturn ==
    /\ cpc = "return"
    /\ smRet' = [returned |-> TRUE, hashes |-> hashes, err |-> smErr]
    /\ cpc' = "returned"
    /\ UNCHANGED <<rep, lg, smBlocks, blocksWithWorkChan, chanClosed, ppc, pi, cBlock,
                   hashes, smErr, pErr, smLog>>
    /\ MultiFrame

\* the destination lists SendMultiple is called with
MultiDestinations ==
    UNION {SeqsOf({[account |-> DestAddress, amount |-> 1]}, n) : n \in 1..MaxDests}

MultiNext ==
    \/ \E destinations \in MultiDestinations, fails \in FailuresIn(1) :
         CallSendMultiple(destinations, fails)
    \/ \E remoteOk \in BOOLEAN, localOk \in BOOLEAN : ProducerWork(remoteOk, localOk)
    \/ ProducerTest
    \/ ProducerQueue
    \/ ProducerClose
    \/ ReceiveBlock
    \/ ReceiveClosed
    \/ ReceiveErr
    \/ \E reached \in BOOLEAN : ConsumerProcess(reached)
    \/ ConsumerReturn

-----------------------------------------------------------------------------
(* Specifications *)

\* the proof-of-work generator is not running
PowOff ==
    /\ data = <<>> /\ difficulty = <<>> /\ x0 = 0 /\ done = FALSE /\ ch = <<>>
    /\ work = <<>> /\ wx = <<>> /\ wpc = <<>> /\ iters = <<>>
    /\ mpc = "off" /\ got = -1 /\ result = <<>> /\ firstSet = <<>>

\* no wallet has been created
WalletOff ==
    /\ impl = "seed" /\ seed = <<>> /\ isBip39 = FALSE /\ isBanano = FALSE
    /\ nextIndex = 0 /\ accounts = <<>> /\ lgPending = {} /\ lgFrontier = {}
    /\ scanPc = "off" /\ lastNew = <<>> /\ lastScan = <<>> /\ calls = 0

\* no goroutine is calling NewAccount
ConcOff ==
    /\ pc = <<>> /\ callerIndex2 = <<>> /\ acct = <<>> /\ tmp = <<>> /\ inserted = <<>>
    /\ accountsMutex = 0

\* SendMultiple is not running
\* no nonce sequence is followed
NonceOff == ncpu = 0 /\ seedX = 0 /\ loopX = <<>> /\ tried = <<>>

MultiOff ==
    /\ smBlocks = <<>> /\ blocksWithWorkChan = <<>> /\ chanClosed = FALSE
    /\ ppc = "off" /\ pi = 0 /\ cpc = "off" /\ cBlock = 0 /\ hashes = <<>>
    /\ smErr = "" /\ pErr = "" /\ smLog = <<>> /\ smRet = <<>>

\* no account is in use
AcctOff ==
    /\ accts = {} /\ rep = <<>> /\ lg = <<>> /\ pend = <<>> /\ seen = <<>>
    /\ clean = <<>> /\ ret = <<>>

\* a seed-backed wallet whose accounts are registered
WalletReady ==
    /\ impl = "seed" /\ seed = <<"S">> /\ isBip39 = FALSE /\ isBanano = FALSE
    /\ nextIndex = 1 /\ accounts = NewAccount(Wallet(0, <<>>), NoIndex, 0).w.accounts
    /\ lgPending = {} /\ lgFrontier = {}
    /\ scanPc = "off" /\ lastNew = <<>> /\ lastScan = <<>> /\ calls = 0

\* a seed-backed wallet with two accounts registered
DrainAccounts == {0, 1}
WalletReadyTwo ==
    /\ impl = "seed" /\ seed = <<"S">> /\ isBip39 = FALSE /\ isBanano = FALSE
    /\ nextIndex = 2
    /\ accounts = NewAccount(NewAccount(Wallet(0, <<>>), NoIndex, 0).w, NoIndex, 0).w.accounts
    /\ lgPending = {} /\ lgFrontier = {}
    /\ scanPc = "off" /\ lastNew = <<>> /\ lastScan = <<>> /\ calls = 0

InitPow == PowInit /\ WalletOff /\ AcctOff /\ ConcOff /\ MultiOff /\ NonceOff
InitWallet == WalletInit /\ PowOff /\ AcctOff /\ ConcOff /\ MultiOff /\ NonceOff
InitAcct == WalletReady /\ AcctInit /\ PowOff /\ ConcOff /\ MultiOff /\ NonceOff
InitDrain == WalletReadyTwo /\ AcctInitOf(DrainAccounts) /\ PowOff /\ ConcOff /\ MultiOff /\ NonceOff
InitConc == ConcInit /\ PowOff /\ AcctOff /\ MultiOff /\ NonceOff
InitMulti == WalletReady /\ MultiInit /\ PowOff /\ ConcOff /\ NonceOff

SpecPow == InitPow /\ [][PowNext]_vars

InitNonce == NonceInit /\ PowOff /\ WalletOff /\ AcctOff /\ ConcOff /\ MultiOff

SpecNonce == InitNonce /\ [][NonceNext]_vars

SpecWallet == InitWallet /\ [][WalletNext]_vars

\* a ScanForAccounts that calls itself goes on: its goroutine is not held up
\* for ever
SpecWalletFair ==
    InitWallet /\ [][WalletNext]_vars
        /\ WF_vars(scanPc = "recurse" /\ ScanForAccounts("none"))

SpecDrain == InitDrain /\ [][DrainNext]_vars

SpecConc == InitConc /\ [][ConcNext]_vars

SpecMulti == InitMulti /\ [][MultiNext]_vars

SpecAcct == InitAcct /\ [][AcctNext]_vars

-----------------------------------------------------------------------------
(* Claims *)

\* C1: whenever Generate(d, t) has returned work w, the byte-reversal x of w
\* is an accepting nonce: the digest of x followed by d, read as a
\* little-endian integer, is at least t
C1_GenerateAccepting ==
    mpc = "returned" =>
        LittleEndianUint(Blake2bSum(Reverse(result) \o data)) >= BigEndianUint(difficulty)

\* Generate has returned the work of a worker other than worker 0, at a
\* threshold some nonces miss, while another worker had found a nonce too
C1_Witness ==
    /\ mpc = "returned"
    /\ got # 0
    /\ BigEndianUint(difficulty) > 0
    /\ \E i \in Workers : i # got /\ wpc[i] \in {"set", "send", "exit"} /\ iters[i] > 1

-----------------------------------------------------------------------------
\* C2: no two entries of the account registry share an address, and no two
\* share a derivation index
C2_RegistryUnique ==
    \A k1, k2 \in DOMAIN accounts :
        k1 # k2 => /\ accounts[k1].address # accounts[k2].address
                   /\ accounts[k1].index # accounts[k2].index

\* after an explicit and an auto-assigned NewAccount the registry holds two
\* accounts, the auto-assigned call having met a registered address and retried
C2_Witness ==
    /\ Cardinality(DOMAIN accounts) >= 2
    /\ lastNew.index = NoIndex
    /\ lastNew.retries > 0
    /\ lastNew.inserted

-----------------------------------------------------------------------------
(* the last probe batch of ScanForAccounts, slots counted from 0 *)

ScanRan == scanPc # "off" /\ lastScan.err = "none" /\ Len(lastScan.batch) = BatchSize
Slot(j) == lastScan.batch[j + 1]
LedgerUsed(address) == address \in lgPending \/ address \in lgFrontier
EvictedSlots == {j \in 0..(BatchSize - 1) : Slot(j).address \notin DOMAIN lastScan.after}

\* C6: in a probe batch the downward scan stops at the first used account,
\* which stays registered; exactly the slots above it are evicted, every
\* evicted account has zero pending and no frontier, and nextIndex is rewound
\* to the index of the lowest evicted account
C6_ScanKeepsUsed ==
    ScanRan =>
        /\ EvictedSlots = (lastScan.i + 1)..(BatchSize - 1)
        /\ \A j \in EvictedSlots : ~LedgerUsed(Slot(j).address)
        /\ \A address \in DOMAIN lastScan.before :
              LedgerUsed(address) => address \in DOMAIN lastScan.after
        /\ lastScan.i >= 0 =>
              /\ LedgerUsed(Slot(lastScan.i).address)
              /\ Slot(lastScan.i).address \in DOMAIN lastScan.after
        /\ EvictedSlots # {} =>
              /\ lastScan.nextIndex = Slot(lastScan.i + 1).index
              /\ \A j \in EvictedSlots : lastScan.nextIndex <= Slot(j).index

\* index 7 has a nonzero pending balance: the scan stopped at it, kept it and
\* evicted the two slots above it
C6_Witness ==
    /\ ScanRan
    /\ lastScan.i = 7
    /\ Slot(7).index = 7
    /\ Slot(7).address \in lgPending
    /\ Slot(7).address \in DOMAIN accounts
    /\ EvictedSlots = {8, 9}

-----------------------------------------------------------------------------
AllTenUnused == ScanRan /\ \A j \in 0..(BatchSize - 1) : ~LedgerUsed(Slot(j).address)

\* C7 as claimed: when all ten accounts of the batch are unused, the scan
\* evicts the slots 5-9 and then probes another batch from the rewound index
C7_EvictsFiveAndReprobes ==
    AllTenUnused =>
        /\ \A j \in GapLimit..(BatchSize - 1) : j \in EvictedSlots
        /\ lastScan.again

\* C7 as amended: when all ten accounts of the batch are unused, the scan
\* evicts all ten, rewinds nextIndex to the index of slot 0 and returns
\* without probing another batch
C7_EvictsAllAndReturns ==
    AllTenUnused =>
        /\ EvictedSlots = 0..(BatchSize - 1)
        /\ lastScan.nextIndex = Slot(0).index
        /\ ~lastScan.again

\* a batch of ten unused accounts was probed after one account had been
\* registered by the caller
C7_Witness ==
    /\ AllTenUnused
    /\ lastScan.i = -1
    /\ Slot(0).index > 0
    /\ scanPc = "idle"


-----------------------------------------------------------------------------
(* Claims about an account's operations *)

\* the ledger calls of one kind the returned operation made, in order
Calls(kind) == SelectSeq(ret.log, LAMBDA e : e.rpc = kind)

\* the returned operation's chain-info query reached the node and the node
\* reported a frontier and a confirmed balance
ReportedBalance ==
    /\ Calls("account_info") # <<>>
    /\ Calls("account_info")[1].ok
    /\ ret.pre.L.frontier # NilHash

\* C3: SendBlock asking for more than the confirmed balance the ledger reported
\* returns the insufficient-funds error and no block; asking for exactly the
\* balance succeeds with a block of balance 0; every block returned with no
\* error is signed, has balance = confirmed balance - amount, previous = the
\* fetched frontier and link = the destination's public key.
C3_SendBlockFunds ==
    (ret.op = "SendBlock" /\ ReportedBalance) =>
        /\ ret.args.amount > ret.pre.L.balance =>
              ret.err = "insufficient funds" /\ ret.blocks = <<>>
        /\ ret.args.amount = ret.pre.L.balance =>
              ret.err = "" /\ Len(ret.blocks) = 1 /\ ret.blocks[1].balance = 0
        /\ ret.err = "" =>
              /\ Len(ret.blocks) = 1
              /\ ret.blocks[1].signature # <<>>
              /\ ret.blocks[1].balance = ret.pre.L.balance - ret.args.amount
              /\ ret.blocks[1].previous = ret.pre.L.frontier
              /\ ret.blocks[1].link = AddressToPubkey(ret.args.account).pubkey

C3_Witness ==
    /\ ret.op = "SendBlock" /\ ReportedBalance
    /\ ret.pre.L.balance > 0
    /\ ret.args.amount = ret.pre.L.balance + 1
    /\ ret.err = "insufficient funds"

\* the sum of the first k amounts of the destinations SendBlocks was given
RECURSIVE PrefixSum(_)
PrefixSum(k) == IF k = 0 THEN 0 ELSE PrefixSum(k - 1) + ret.args.destinations[k].amount

\* the k-th destination's address decodes to a public key
Decodes(k) == AddressToPubkey(ret.args.destinations[k].account).err = ""

\* SendBlocks made one ledger query; an error comes with no blocks; no block
\* has a negative balance; the blocks returned with no error are one per
\* destination and chained from the fetched frontier, with the running balance
SendBlocksChain ==
    /\ Len(ret.log) = 1 /\ Len(Calls("account_info")) = 1
    /\ ret.err # "" => ret.blocks = <<>>
    /\ \A k \in 1..Len(ret.blocks) : ret.blocks[k].balance >= 0
    /\ (ReportedBalance /\ ret.err = "") =>
          /\ Len(ret.blocks) = Len(ret.args.destinations)
          /\ \A k \in 1..Len(ret.blocks) :
                /\ ret.blocks[k].previous =
                      (IF k = 1 THEN ret.pre.L.frontier
                       ELSE BlockHash(ret.blocks[k - 1]).hash)
                /\ ret.blocks[k].balance = ret.pre.L.balance - PrefixSum(k)

\* C4, as stated: SendBlocks queries the ledger once and builds a linear chain
\* from the fetched frontier with balances = confirmed balance - prefix sums;
\* if any prefix sum of the amounts exceeds the confirmed balance the call
\* returns the insufficient-funds error and no blocks; no returned block has a
\* negative balance.
C4_SendBlocksChain ==
    ret.op = "SendBlocks" =>
        /\ SendBlocksChain
        /\ (ReportedBalance /\ \E k \in 1..Len(ret.args.destinations) :
                                   PrefixSum(k) > ret.pre.L.balance) =>
              ret.err = "insufficient funds" /\ ret.blocks = <<>>

\* C4, amended: as above, but the insufficient-funds error is promised only
\* when every destination address up to and including the position where the
\* prefix sum exceeds the balance decodes; an address that does not decode and
\* is met first makes the call return the invalid-address error, still with
\* no blocks.
C4_SendBlocksChainValidAddresses ==
    ret.op = "SendBlocks" =>
        /\ SendBlocksChain
        /\ (ReportedBalance /\ \E k \in 1..Len(ret.args.destinations) :
                                   /\ PrefixSum(k) > ret.pre.L.balance
                                   /\ \A j \in 1..k : Decodes(j)) =>
              ret.err = "insufficient funds" /\ ret.blocks = <<>>

C4_Witness ==
    /\ ret.op = "SendBlocks" /\ ReportedBalance
    /\ ret.err = "" /\ Len(ret.blocks) >= 2
    /\ ret.blocks[2].previous = BlockHash(ret.blocks[1]).hash
    /\ ret.blocks[2].previous # ret.pre.L.frontier

\* the amount of the pending entry a receive block links to
LinkedAmount(P, block) ==
    P[CHOOSE s \in DOMAIN P : SourceHash(s) = block.link]

\* the sum of the amounts of the entries the first j submitted blocks link to
RECURSIVE DrainedSum(_, _, _)
DrainedSum(P, sub, j) ==
    IF j = 0 THEN 0 ELSE DrainedSum(P, sub, j - 1) + LinkedAmount(P, sub[j].block)

\* C5: when ReceivePendings drains a never-used account, every block it
\* submits is a receive block linking to a pending entry of its own; the
\* first has previous = 32 zero bytes and work over the account's public key
\* at the receive difficulty; block j > 1 has previous = the hash the
\* submission of block j-1 returned and work over that hash; block j's
\* balance is the sum of the first j entries' amounts; a drain that succeeds
\* submitted exactly one block per pending entry.
C5_DrainNeverUsed ==
    (ret.op = "ReceivePendings" /\ ret.pre.L.frontier = NilHash) =>
        LET sub == Calls("process")
            K == {s \in DOMAIN ret.pre.P : ret.pre.P[s] >= ret.args.threshold}
        IN  /\ \A j \in 1..Len(sub) :
                  /\ sub[j].subtype = "receive"
                  /\ \E s \in K : sub[j].block.link = SourceHash(s)
                  /\ \A i \in 1..(j - 1) : sub[i].block.link # sub[j].block.link
                  /\ sub[j].block.previous =
                        (IF j = 1 THEN ZeroHash ELSE BlockHash(sub[j - 1].block).hash)
                  /\ sub[j].block.work[3] =
                        (IF j = 1 THEN AccountOf(ret.a).pubkey
                         ELSE BlockHash(sub[j - 1].block).hash)
                  /\ sub[j].block.work[4] = ReceiveWorkDifficulty
                  /\ sub[j].block.balance = DrainedSum(ret.pre.P, sub, j)
            /\ ret.err = "" => Len(sub) = Cardinality(K)

C5_Witness ==
    /\ ret.op = "ReceivePendings" /\ ret.pre.L.frontier = NilHash
    /\ ret.err = ""
    /\ Len(Calls("process")) = 2
    /\ Calls("process")[1].block.previous = ZeroHash
    /\ Calls("process")[2].block.balance = 1 + 2

\* the entries of account a that were pending at the threshold when the
\* returned operation was called
WerePending(P, threshold) == {s \in DOMAIN P : P[s] >= threshold}

\* C8: once a drain at a threshold has succeeded and nothing new has become
\* pending, no entry at that threshold is left, and a second drain, of the
\* account or of the wallet, submits no block; a drain over an empty pending
\* set submits nothing and does not query the chain info.
C8_SecondDrainSubmitsNothing ==
    /\ \A a \in accts : \A t \in clean[a] : \A s \in DOMAIN pend[a] : pend[a][s] < t
    /\ ret.op = "ReceivePendings" =>
          /\ ret.args.threshold \in ret.pre.clean => Calls("process") = <<>>
          /\ WerePending(ret.pre.P, ret.args.threshold) = {} =>
                Calls("process") = <<>> /\ Calls("account_info") = <<>>
    /\ ret.op = "Wallet.ReceivePendings" =>
          /\ (\A a \in accts : ret.args.threshold \in ret.pre.clean[a]) =>
                Calls("process") = <<>>
          /\ (\A a \in accts : WerePending(ret.pre.P[a], ret.args.threshold) = {}) =>
                Calls("process") = <<>> /\ Calls("account_info") = <<>>

C8_Witness ==
    /\ ret.op = "Wallet.ReceivePendings"
    /\ ret.err = ""
    /\ \A a \in accts : ret.args.threshold \in ret.pre.clean[a]
    /\ \A a \in accts : ret.pre.L[a].height >= 1
    /\ Calls("process") = <<>>

\* C9, as stated: the first ledger call of an operation that fails to reach
\* the node is the operation's last call, and its error is what the operation
\* returns.
C9_FailFast ==
    ret.op # "" =>
        \A i \in 1..Len(ret.log) :
            ~ret.log[i].ok => (i = Len(ret.log) /\ ret.err = "communication failure")


-----------------------------------------------------------------------------
(* Claims about concurrent callers *)

\* caller p has taken an index from nextIndex and has not yet finished
\* registering the address derived from it
Reserving(p) == pc[p] \in {"increment", "store", "lock", "insert"}

\* C10, as stated: nextIndex is read and written under the lock that guards
\* the registry, so no two concurrent NewAccount calls hold a reservation of
\* the same index, and nobody reserves an index while another caller is
\* between reserving its index and registering its address.
C10_ReservationsExclusive ==
    \A p, q \in Callers :
        (p # q /\ Reserving(p) /\ Reserving(q)) => callerIndex2[p] # callerIndex2[q]


-----------------------------------------------------------------------------
(* Claims about SendMultiple *)

\* C11, as stated: once the producer has signalled a work-generation failure
\* on the error path, the error preempts the blocks already queued: the
\* consumer, choosing what to receive next, takes no further block from the
\* channel (and so submits none).
C11_ErrorPreemptsQueue ==
    [][(ppc = "sendErr" /\ cpc = "select") =>
           blocksWithWorkChan' = blocksWithWorkChan]_vars


-----------------------------------------------------------------------------
(* Claims about the representative and the work of a block *)

\* C12: the block ChangeRep(r) submits has the confirmed balance, link = 32
\* zero bytes, previous = the frontier, representative = r and work over the
\* frontier at the send/change difficulty; the cached representative is r
\* after a call that returned no error and is what it was before after a
\* call that returned one (query, signing, work generation or submission).
C12_ChangeRepBlock ==
    ret.op = "ChangeRep" =>
        /\ \A j \in 1..Len(Calls("process")) :
              LET b == Calls("process")[j].block
              IN  /\ Calls("process")[j].subtype = "change"
                  /\ b.balance = ret.pre.L.balance
                  /\ b.link = ZeroHash
                  /\ b.previous = ret.pre.L.frontier
                  /\ b.representative = ret.args.representative
                  /\ b.work[3] = ret.pre.L.frontier
                  /\ b.work[4] = WorkDifficulty
        /\ ret.err = "" =>
              /\ Len(Calls("process")) = 1
              /\ rep[ret.a] = ret.args.representative
        /\ ret.err # "" => rep[ret.a] = ret.pre.rep

C12_Witness ==
    /\ ret.op = "ChangeRep"
    /\ ret.err = "communication failure"
    /\ Len(Calls("process")) = 1
    /\ ret.pre.rep # ret.args.representative
    /\ rep[ret.a] = ret.pre.rep


\* the returned operation was given an address that does not decode
GaveInvalidAddress ==
    \/ ret.op = "SetRep" /\ AddressToPubkey(ret.args.representative).err # ""
    \/ ret.op = "SendBlock" /\ AddressToPubkey(ret.args.account).err # ""
    \/ /\ ret.op = "SendBlocks" /\ ReportedBalance
       /\ \E k \in 1..Len(ret.args.destinations) : ~Decodes(k)

\* C13, as stated: SetRep, SendBlock or SendBlocks given an address that does
\* not decode (for SendBlocks at any position, the ledger having answered the
\* query) returns the invalid-address error and no block, submits nothing and
\* leaves the cached representative as it was before the call.
C13_InvalidAddressNoMutation ==
    GaveInvalidAddress =>
        /\ ret.err = "invalid address"
        /\ ret.blocks = <<>>
        /\ Calls("process") = <<>>
        /\ rep[ret.a] = ret.pre.rep

-----------------------------------------------------------------------------
LedgerUnavailable == "ledger support not available"

\* C14: in a wallet made by NewLedgerWallet every derive and every sign call
\* fails with "ledger support not available"; every NewAccount call, with or
\* without an index, returns that error, and whatever calls were made the
\* registry is empty and nextIndex is 0
C14_LedgerWalletDerivesNothing ==
    impl = "ledger" =>
        /\ DOMAIN accounts = {}
        /\ nextIndex = 0
        /\ \A index \in 0..MaxExplicit :
               deriveAccount([w |-> Wallet(nextIndex, accounts), index |-> index]).err
                   = LedgerUnavailable
        /\ signBlock(0, NoBlock).err = LedgerUnavailable
        /\ \A index \in {NoIndex} \cup (0..MaxExplicit) :
               NewAccount(Wallet(nextIndex, accounts), index, 0).err = LedgerUnavailable
        /\ lastNew.err \in {"", LedgerUnavailable}
        /\ lastScan.err \in {"none", LedgerUnavailable}
        /\ calls > 0 => lastNew.err = LedgerUnavailable \/ lastScan.err = LedgerUnavailable

\* a ledger wallet on which NewAccount was called twice, the second time
\* without an index
C14_Witness ==
    /\ impl = "ledger"
    /\ calls = MaxCalls
    /\ lastScan = NoScan
    /\ lastNew.index = NoIndex
    /\ lastNew.err = LedgerUnavailable
    /\ ~lastNew.inserted

-----------------------------------------------------------------------------
\* the data the work of a submitted block is computed over: the frontier the
\* block extends, or the account's public key when it opens the account
LinkageData(e) ==
    IF e.subtype = "receive" /\ e.block.previous = ZeroHash
    THEN AccountOf(ret.a).pubkey ELSE e.block.previous

-----------------------------------------------------------------------------
\* the number of accounts at the top of the last probe batch that the ledger
\* has nothing for, counted down from slot 9 to the first used one
TrailingUnused ==
    Cardinality({j \in 0..(BatchSize - 1) :
                    \A k \in j..(BatchSize - 1) : ~LedgerUsed(Slot(k).address)})

\* an activation of ScanForAccounts returns exactly when at least 5 trailing
\* accounts of its batch are unused, and then its scan stopped at one of the
\* slots 0-4 or below slot 0; otherwise it calls itself with nextIndex rewound
\* to the lowest trailing unused account, or left after slot 9 when slot 9 is used
ScanStopsAtFiveTrailing ==
    ScanRan =>
        /\ lastScan.again <=> TrailingUnused < GapLimit
        /\ lastScan.again <=> scanPc = "recurse"
        /\ ~lastScan.again => lastScan.i \in -1..(GapLimit - 1)
        /\ lastScan.again =>
              /\ nextIndex = lastScan.nextIndex
              /\ TrailingUnused > 0 => nextIndex = Slot(BatchSize - TrailingUnused).index
              /\ TrailingUnused = 0 => nextIndex > Slot(BatchSize - 1).index
              /\ ProbeBatch(Wallet(nextIndex, accounts), 1, <<>>).batch[1].index >= nextIndex

\* C16: ScanForAccounts returns after the first probe batch with at least 5
\* unused trailing accounts and otherwise probes a fresh batch from the
\* rewound nextIndex; a ScanForAccounts that called itself returns in the
\* end: at no time is it between two of its activations for ever after
C16_ScanTerminates ==
    /\ []ScanStopsAtFiveTrailing
    /\ []<>(scanPc = "idle")

\* the only call made was a ScanForAccounts; it has returned from a batch that
\* does not start at index 0, the batch it probed after calling itself
C16_Witness ==
    /\ ScanRan
    /\ scanPc = "idle"
    /\ calls = 1
    /\ lastNew.index = NoIndex /\ lastNew.err = ""
    /\ ~lastScan.again
    /\ Slot(0).index > 0
    /\ TrailingUnused >= GapLimit

-----------------------------------------------------------------------------
\* the ledger has something for the account of derivation index k
UsedIndex(k) == LedgerUsed(AddressOf(k))

\* the first index of the first run of 5 consecutive unused derivation indices
FirstGap ==
    CHOOSE g \in 0..(MaxUsedIndex + 1) :
        /\ \A k \in g..(g + GapLimit - 1) : ~UsedIndex(k)
        /\ \A h \in 0..(g - 1) : \E k \in h..(h + GapLimit - 1) : UsedIndex(k)

\* ScanForAccounts, the only call made on a wallet fresh from its constructor,
\* has returned without an error
FreshScanReturned ==
    /\ ScanRan
    /\ scanPc = "idle"
    /\ calls = 1
    /\ lastNew.a = NoAccount /\ lastNew.err = ""

RegisteredIndices == {accounts[address].index : address \in DOMAIN accounts}

\* where discovery by batches of 10 ends when its batch starts at index b: at
\* b when nothing in b..b+9 is used, after the highest used index of the batch
\* when that lies in the lower five, and else where the batch after it ends
RECURSIVE BatchScanEnd(_)
BatchScanEnd(b) ==
    LET used == {k \in b..(b + BatchSize - 1) : UsedIndex(k)}
        top == CHOOSE k \in used : \A j \in used : j <= k
    IN  IF used = {} THEN b
        ELSE IF top - b < GapLimit THEN top + 1
        ELSE BatchScanEnd(top + 1)

\* C17 as claimed: discovery on a fresh wallet stops at the first run of 5
\* consecutive unused indices: nextIndex is the first index of that run and
\* no account at or beyond it is registered
C17_StopsAtFirstGap ==
    FreshScanReturned =>
        /\ nextIndex = FirstGap
        /\ \A k \in RegisteredIndices : k < FirstGap

\* C17 as amended: discovery on a fresh wallet stops at the first probe batch
\* whose five highest slots are unused; a run of 5 unused indices lying lower
\* in a batch, below a used account, does not stop it. After it returns
\* nextIndex starts a run of at least 5 unused indices at or after the first
\* such run, is 0 or follows a used index, and the registry holds exactly the
\* indices below nextIndex, used or not
C17_StopsAtTrailingGap ==
    FreshScanReturned =>
        /\ nextIndex = BatchScanEnd(0)
        /\ nextIndex >= FirstGap
        /\ \A k \in nextIndex..(nextIndex + GapLimit - 1) : ~UsedIndex(k)
        /\ nextIndex = 0 \/ UsedIndex(nextIndex - 1)
        /\ RegisteredIndices = 0..(nextIndex - 1)

\* only index 7 is used: the indices 0-4 are a run of 5 unused ones, yet
\* discovery went on to a second batch and returned with the accounts 0-7
\* registered and nextIndex 8
C17_Witness ==
    /\ FreshScanReturned
    /\ FirstGap = 0
    /\ UsedIndex(7)
    /\ nextIndex = 8
    /\ RegisteredIndices = 0..7

-----------------------------------------------------------------------------
\* C18: once done = true has been executed, every worker other than the one
\* that executed it finishes at most one further hash, and no worker has
\* delivered more than one result
C18_AtMostOneFurtherHash ==
    /\ firstSet # NoSet =>
          \A i \in Workers \ {firstSet.by} : Hashed(i) - firstSet.hashed[i] <= 1
    /\ \A i \in Workers :
          Cardinality({k \in 1..Len(ch) : ch[k] = i}) + (IF got = i THEN 1 ELSE 0) <= 1

-----------------------------------------------------------------------------
\* worker i has hashed exactly x+i, x+i+n, x+i+2n, ... in the arithmetic of
\* the word
TriesResidueSequence ==
    \A i \in DOMAIN tried : \A k \in 1..Len(tried[i]) :
        tried[i][k] = (seedX + i + (k - 1) * ncpu) % WordMod

\* C19 as claimed: worker i hashes x+i, x+i+n, x+i+2n, ... and no nonce is
\* ever hashed by two different workers, whatever n and x are
C19_NoncesDisjoint ==
    /\ TriesResidueSequence
    /\ \A i, j \in DOMAIN tried :
          i # j => \A k \in 1..Len(tried[i]), l \in 1..Len(tried[j]) :
                      tried[i][k] # tried[j][l]

\* C19 as amended: worker i hashes x+i, x+i+n, x+i+2n, ...; the first
\* WordMod \div n nonces of the workers are pairwise different, whatever n and
\* x are, and all their nonces are when n divides the size of the nonce space
C19_NoncesDisjointUntilWrap ==
    /\ TriesResidueSequence
    /\ \A i, j \in DOMAIN tried :
          i # j => \A k \in 1..Len(tried[i]), l \in 1..Len(tried[j]) :
                      (WordMod % ncpu = 0 \/ (k <= WordMod \div ncpu /\ l <= WordMod \div ncpu))
                          => tried[i][k] # tried[j][l]

\* three workers started at the top of the nonce space have each gone once
\* round it: the start wrapped for two of them, and a nonce hashed after a
\* worker's own wrap had been hashed by another worker
C19_Witness ==
    /\ ncpu = 3
    /\ seedX = WordMod - 1
    /\ Len(tried[0]) > WordMod \div ncpu
    /\ tried[1][1] = 0
    /\ \E k \in 1..Len(tried[0]), l \in 1..Len(tried[1]) : tried[0][k] = tried[1][l]

-----------------------------------------------------------------------------
SendOrReceive ==
    ret.op \in {"SendBlock", "Send", "SendBlocks", "ReceivePending", "ReceivePendings"}

\* the blocks the returned operation built: those it returned and those it
\* handed to the node
BuiltBlocks ==
    {ret.blocks[k] : k \in 1..Len(ret.blocks)}
        \cup {Calls("process")[k].block : k \in 1..Len(Calls("process"))}

\* the representative the blocks of the returned operation are to carry: the
\* cached one; with an empty cache the one the ledger reported; the default
\* one when the ledger reported none
CacheDecides ==
    IF ret.pre.rep # EmptyString THEN ret.pre.rep
    ELSE IF ReportedBalance THEN ret.pre.L.representative
    ELSE DefaultRepresentative

\* C20: every send and receive block carries the cached representative when
\* the cache is not empty, whatever the ledger reports, and the cache is left
\* as it was; with an empty cache the blocks carry the ledger's
\* representative, a receive block the default one when the ledger gave none,
\* and the cache holds it afterwards; SetRep calls no node, builds no block
\* and changes nothing but the cache
C20_CachedRepresentativeDecides ==
    /\ SendOrReceive =>
          /\ \A b \in BuiltBlocks : b.representative = CacheDecides
          /\ ret.pre.rep # EmptyString => rep[ret.a] = ret.pre.rep
          /\ BuiltBlocks # {} => rep[ret.a] = CacheDecides
          /\ \A k \in 1..Len(Calls("process")) :
                (Calls("process")[k].subtype = "send" /\ ret.pre.rep = EmptyString)
                    => Calls("process")[k].block.representative = ret.pre.L.representative
    /\ ret.op = "SetRep" =>
          /\ ret.log = <<>> /\ ret.blocks = <<>>
          /\ lg[ret.a] = ret.pre.L /\ pend[ret.a] = ret.pre.P
          /\ ret.err = "" => rep[ret.a] = ret.args.representative
          /\ ret.err # "" => rep[ret.a] = ret.pre.rep

\* a receive block was accepted carrying the representative SetRep had cached
\* while the ledger reported another one for the account
C20_Witness ==
    /\ ret.op \in {"ReceivePending", "ReceivePendings"}
    /\ ret.err = ""
    /\ ret.pre.rep = RepChosen
    /\ ret.pre.L.representative = RepOnLedger
    /\ Len(Calls("process")) >= 1
    /\ Calls("process")[1].block.representative = RepChosen
    /\ lg[ret.a].representative = RepChosen

-----------------------------------------------------------------------------
\* ScanForAccounts has returned without an error on a wallet no NewAccount
\* call gave an index to
AutoScanReturned ==
    /\ ScanRan
    /\ ~lastScan.again
    /\ ~lastNew.anyExplicit

ScanKeptIndices == {lastScan.after[address].index : address \in DOMAIN lastScan.after}

\* C21: when ScanForAccounts returns on a wallet whose accounts all have
\* auto-assigned indices, no registered account has an index at or above
\* nextIndex, every index below nextIndex is registered, and so is every
\* account of the scan's batch that has an index below nextIndex
C21_NextIndexIsNextUnused ==
    AutoScanReturned =>
        /\ \A k \in ScanKeptIndices : k < lastScan.nextIndex
        /\ ScanKeptIndices = 0..(lastScan.nextIndex - 1)
        /\ \A j \in 0..(BatchSize - 1) :
              Slot(j).index < lastScan.nextIndex =>
                  /\ Slot(j).address \in DOMAIN lastScan.after
                  /\ lastScan.after[Slot(j).address].index = Slot(j).index

\* after NewAccount(nil) had made the first accounts, the scan probed the
\* indices that follow, found index 7 used, kept the unused accounts below it
\* and returned from its second batch with nextIndex 8
C21_Witness ==
    /\ AutoScanReturned
    /\ scanPc = "idle"
    /\ calls = MaxCalls
    /\ lastNew.index = NoIndex /\ lastNew.inserted
    /\ UsedIndex(7)
    /\ nextIndex = 8
    /\ RegisteredIndices = 0..7

-----------------------------------------------------------------------------
\* C22: when the callers of NewAccount(nil) on a fresh wallet have all
\* returned, each returned an account it inserted itself, the accounts have
\* pairwise different indices, and the registry holds exactly the indices
\* 0..k-1 with nextIndex = k, k being the number of callers
C22_ConcurrentAsSequential ==
    /\ \A p \in Callers :
          pc[p] = "returned" =>
              /\ inserted[p]
              /\ acct[p].address \in DOMAIN accounts
              /\ accounts[acct[p].address] = acct[p]
    /\ \A p, q \in Callers :
          (p # q /\ pc[p] = "returned" /\ pc[q] = "returned")
              => acct[p].index # acct[q].index
    /\ (\A p \in Callers : pc[p] = "returned") =>
          /\ RegisteredIndices = 0..(NumCallers - 1)
          /\ nextIndex = NumCallers

-----------------------------------------------------------------------------
\* C23: once SendMultiple has returned, its producer goroutine is not waiting
\* to send on errChan, which nobody receives from any more, nor waiting to put
\* a block into a full blocksWithWorkChan: it has ended or can go on to its end
C23_ProducerNotLeftBlocked ==
    smRet.returned =>
        /\ ppc # "sendErr"
        /\ ppc = "queue" => Len(blocksWithWorkChan) < Len(smBlocks)

\* the ledger calls of the returned operation that did not reach the node
FailedCalls == {i \in 1..Len(ret.log) : ~ret.log[i].ok}

\* the sum of the amounts of the entries K of the pending map P
RECURSIVE SumOver(_, _)
SumOver(P, K) ==
    IF K = {} THEN 0
    ELSE LET s == CHOOSE t \in K : TRUE IN P[s] + SumOver(P, K \ {s})

\* the returned drain, run again from the state it was called in with the
\* pending map iterated in the order q
DrainAgain(q) ==
    ReceivePendings(ret.a, ret.pre.rep, ret.args.threshold, q,
                    [L |-> ret.pre.L, P |-> ret.pre.P, S |-> seen[ret.a], log |-> <<>>],
                    FailedCalls, ret.args.remote)

\* C24: a drain that succeeds gives the same outcome whatever the order the
\* pending map is iterated in: it submits one receive block per pending
\* entry, the links of the blocks are the source hashes of the entries, and
\* the last block's balance is the balance the account had plus the sum of
\* all the pending amounts; every other order of the same entries succeeds
\* too, with as many blocks, the same links and the same final balance. In
\* every drain each block's balance is the balance of the block before it
\* (the account's balance for the first block of a successful drain) plus the
\* amount of the entry it links to.
C24_DrainOrderIndependent ==
    ret.op = "ReceivePendings" =>
        LET sub == Calls("process")
            P == ret.pre.P
            K == WerePending(P, ret.args.threshold)
            n == Len(sub)
        IN  /\ \A j \in 2..n :
                  sub[j].block.balance =
                      sub[j - 1].block.balance + LinkedAmount(P, sub[j].block)
            /\ ret.err = "" =>
                  /\ n = Cardinality(K)
                  /\ {sub[j].block.link : j \in 1..n} = {SourceHash(s) : s \in K}
                  /\ n >= 1 =>
                        /\ sub[1].block.balance =
                               ret.pre.L.balance + LinkedAmount(P, sub[1].block)
                        /\ sub[n].block.balance = ret.pre.L.balance + SumOver(P, K)
                  /\ \A q \in Orders({HexKey(s) : s \in K}) :
                        LET again == DrainAgain(q)
                            resub == SelectSeq(again.st.log, LAMBDA e : e.rpc = "process")
                        IN  /\ again.err = ""
                            /\ Len(resub) = n
                            /\ {resub[j].block.link : j \in 1..n} =
                                  {sub[j].block.link : j \in 1..n}
                            /\ again.st.L.balance = lg[ret.a].balance
                            /\ again.st.P = pend[ret.a]

\* a successful drain of two entries of different amounts on an account that
\* already had a balance, taking the entry with the larger amount first
C24_Witness ==
    /\ ret.op = "ReceivePendings" /\ ret.err = ""
    /\ ret.pre.L.balance > 0
    /\ Len(Calls("process")) = 2
    /\ LinkedAmount(ret.pre.P, Calls("process")[1].block)
          > LinkedAmount(ret.pre.P, Calls("process")[2].block)
    /\ Calls("process")[2].block.balance = ret.pre.L.balance + SumOver(ret.pre.P, DOMAIN ret.pre.P)

\* C25, as stated: a send never increases the sender's balance. Whatever the
\* amounts asked for, zero and negative ones included, every block SendBlock
\* or SendBlocks returns has a balance no greater than the confirmed balance
\* the ledger reported, or else the call returns an error and no block.
C25_SendNeverIncreasesBalance ==
    (ret.op \in {"SendBlock", "SendBlocks"} /\ ReportedBalance) =>
        \/ \A j \in 1..Len(ret.blocks) : ret.blocks[j].balance <= ret.pre.L.balance
        \/ ret.err # "" /\ ret.blocks = <<>>

====
